---- MODULE Spec2Model ----
(***************************************************************************)
(* wallet-watcher: the per-transaction balance-change sheet (generate_pnl) *)
(* and the per-block, per-wallet PnL report (process_block).               *)
(*                                                                         *)
(* U256 / I256 values are kept as raw words in 0 .. Modulus-1; I256 is the *)
(* two's-complement reading of the same word (negative = top bit set).     *)
(* Arithmetic wraps, as the release build of ruint / alloy Signed does.    *)
(* An Option is either a value or the marker NoAddr / None.                *)
(***************************************************************************)
EXTENDS Integers, Sequences, FiniteSets, TLC

VARIABLES pc, chain, header, receipt_and_traces, wallets, reports,
          balance_changes_all, receipt, call_trace, only_addresses,
          bcs, bcs_only, full_bcs, first_entry, airdrop,
          receipt_more, fees,
          events, arrived, handlers, fetched, token_info, submitted, logged,
          configured, tasks, main, alive, seen,
          test_cases, spawned, permits, workers, channel, generated_test_case,
          file, generate, unmatched_cases, failed_cases, stdout

vars == <<pc, chain, header, receipt_and_traces, wallets, reports,
          balance_changes_all, receipt, call_trace, only_addresses,
          bcs, bcs_only, full_bcs, first_entry, airdrop,
          receipt_more, fees,
          events, arrived, handlers, fetched, token_info, submitted, logged,
          configured, tasks, main, alive, seen,
          test_cases, spawned, permits, workers, channel, generated_test_case,
          file, generate, unmatched_cases, failed_cases, stdout>>

\* the state of calculate_tx_fee's comparison (SpecFee)
FeeVars == <<receipt_more, fees>>

FeeIdle == receipt_more = <<>> /\ fees = <<>>

\* the state of one chain's WalletWatcher and of its engine (SpecLive)
LiveVars == <<events, arrived, handlers, fetched, token_info, submitted, logged>>

LiveIdle ==
    /\ events = <<>>
    /\ arrived = 0
    /\ handlers = <<>>
    /\ fetched = <<>>
    /\ token_info = {}
    /\ submitted = <<>>
    /\ logged = <<>>

\* the state of the start command: the chain tasks and the process (SpecStart)
StartVars == <<configured, tasks, main, alive, seen>>

StartIdle ==
    /\ configured = 0
    /\ tasks = <<>>
    /\ main = "idle"
    /\ alive = FALSE
    /\ seen = <<>>

\* the state of backtest: the test cases, the workers, the channel of their
\* results, what run collects from them, the file and the standard output
\* (SpecBacktest, SpecVerdict)
BacktestVars == <<test_cases, spawned, permits, workers, channel,
                  generated_test_case, file, generate, unmatched_cases,
                  failed_cases, stdout>>

BacktestIdle ==
    /\ test_cases = <<>>
    /\ spawned = 0
    /\ permits = 0
    /\ workers = <<>>
    /\ channel = <<>>
    /\ generated_test_case = <<>>
    /\ file = [written |-> FALSE, records |-> <<>>]
    /\ generate = FALSE
    /\ unmatched_cases = <<>>
    /\ failed_cases = <<>>
    /\ stdout = <<>>

\* the state outside generate_pnl, process_block and is_shitcoin_airdrop
ExtVars == <<FeeVars, LiveVars, StartVars, BacktestVars>>

ExtIdle == FeeIdle /\ LiveIdle /\ StartIdle /\ BacktestIdle

---------------------------------------------------------------------------
(* Bounds of the model *)

\* width of the machine word standing for the 256 bits of U256 / I256
WordBits == 4

\* frames plus logs of one call trace (SpecPnl)
MaxItems == 3

\* transactions of one block (SpecBlock)
MaxTxs == 2

\* accounts of an arbitrary sheet (SpecAirdrop)
NumSheetAccounts == 4

---------------------------------------------------------------------------
(* Words *)

Modulus == 2 ^ WordBits

\* the word whose top bit alone is set (I256::MIN)
HighBit == Modulus \div 2

Add(a, b) == (a + b) % Modulus

Sub(a, b) == (a + Modulus - b) % Modulus

Neg(a) == (Modulus - a) % Modulus

Mul(a, b) == (a * b) % Modulus

is_negative(a) == a >= HighBit

is_positive(a) == a # 0 /\ a < HighBit

\* the integer an I256 word stands for
Signed(a) == IF is_negative(a) THEN a - Modulus ELSE a

\* u128 values (gas_used, effective_gas_price) take half the bits of a word
U128 == 0..(2 ^ (WordBits \div 2) - 1)

---------------------------------------------------------------------------
(* Addresses and chains *)

\* Address::ZERO, which is also NATIVE_TOKEN
Zero == 0

NATIVE_TOKEN == Zero

\* an absent Option<Address>
NoAddr == -1

\* the wrapped-native token of the chains that have one, two ERC-20 tokens
Weth == 5
TokenX == 6
TokenY == 7

Chains == {"mainnet", "optimism", "arbitrum", "unknown"}

\* chain.named().and_then(|c| c.wrapped_native_token()): NoAddr when the
\* chain has none
wrapped_native_token(c) == IF c = "unknown" THEN NoAddr ELSE Weth

is_weth9_any_chain(c) == TRUE

is_weth9(c) == c \in {"mainnet", "bsc", "polygon", "optimism", "base", "blast"}

is_optimism(c) == c \in {"optimism", "base"}

---------------------------------------------------------------------------
(* HashMap helpers: a map is a function, its keys are its DOMAIN *)

EmptyMap == <<>>

Put(m, k, v) == [x \in (DOMAIN m) \cup {k} |-> IF x = k THEN v ELSE m[x]]

Remove(m, k) == [x \in (DOMAIN m) \ {k} |-> m[x]]

---------------------------------------------------------------------------
(* BalanceChange: token -> I256,  BalanceChanges: account -> BalanceChange *)

BalanceChange_retain_non_zero(bc) ==
    [t \in {x \in DOMAIN bc : bc[x] # 0} |-> bc[t]]

retain_non_zero_keeps_accounts(sheet) ==
    [a \in DOMAIN sheet |-> BalanceChange_retain_non_zero(sheet[a])]

retain_non_zero(sheet) ==
    LET pruned == [a \in DOMAIN sheet |-> BalanceChange_retain_non_zero(sheet[a])]
    IN  [a \in {x \in DOMAIN pruned : DOMAIN pruned[x] # {}} |-> pruned[a]]

\* self.entry(acct).or_default().entry(token).and_modify(|e| *e -= value).or_insert(-value)
DebitEntry(sheet, acct, token, value) ==
    LET bc == IF acct \in DOMAIN sheet THEN sheet[acct] ELSE EmptyMap
        nv == IF token \in DOMAIN bc THEN Sub(bc[token], value) ELSE Neg(value)
    IN  Put(sheet, acct, Put(bc, token, nv))

\* self.entry(acct).or_default().entry(token).and_modify(|e| *e += value).or_insert(value)
CreditEntry(sheet, acct, token, value) ==
    LET bc == IF acct \in DOMAIN sheet THEN sheet[acct] ELSE EmptyMap
        nv == IF token \in DOMAIN bc THEN Add(bc[token], value) ELSE value
    IN  Put(sheet, acct, Put(bc, token, nv))

append_transfer_no_zero_check(sheet, token, from, to, value) ==
    CreditEntry(DebitEntry(sheet, from, token, value), to, token, value)

append_transfer(sheet, token, from, to, value) ==
    LET debited == IF from # Zero THEN DebitEntry(sheet, from, token, value) ELSE sheet
    IN  IF to # Zero THEN CreditEntry(debited, to, token, value) ELSE debited

RECURSIVE ExtendFrom(_, _, _)
ExtendFrom(bc, other, todo) ==
    IF todo = {} THEN bc
    ELSE LET t == CHOOSE x \in todo : TRUE
             nv == IF t \in DOMAIN bc THEN Add(bc[t], other[t]) ELSE other[t]
         IN  ExtendFrom(Put(bc, t, nv), other, todo \ {t})

\* BalanceChange::extend
extend(bc, other) == ExtendFrom(bc, other, DOMAIN other)

\* BalanceChange::extract_ether: the sum taken out and what is left
extract_ether(bc, c) ==
    LET w    == wrapped_native_token(c)
        weth == IF w # NoAddr /\ w \in DOMAIN bc THEN bc[w] ELSE 0
        bc1  == IF w # NoAddr THEN Remove(bc, w) ELSE bc
        eth  == IF NATIVE_TOKEN \in DOMAIN bc1 THEN bc1[NATIVE_TOKEN] ELSE 0
    IN  [ether |-> Add(eth, weth), rest |-> Remove(bc1, NATIVE_TOKEN)]

---------------------------------------------------------------------------
(* Logs.  A log is [address, topics, data]: topics[1] is the event         *)
(* signature, the following topics are the indexed arguments, data holds   *)
(* the non-indexed words.                                                  *)

\* primitive_log_decode::<T>: the signature topic matches and the log has
\* the event's shape (decode_log with validate = true)
DecodesAs(log, sig, nTopics) ==
    /\ Len(log.topics) >= 1
    /\ log.topics[1] = sig
    /\ Len(log.topics) = nTopics
    /\ Len(log.data) = 1

\* event Transfer(address indexed from, address indexed to, uint256 value)
IsTransfer(log) == DecodesAs(log, "Transfer", 3)

\* event Withdrawal(address indexed src, uint wad)
IsWithdrawal(log) == DecodesAs(log, "Withdrawal", 2)

\* event Deposit(address indexed dst, uint wad)
IsDeposit(log) == DecodesAs(log, "Deposit", 2)

\* alloy::primitives::Log::new(..) is None for more than four topics
LogIsValid(log) == Len(log.topics) <= 4

\* the (token, from, to, value) a log stands for; some = FALSE when the log
\* is skipped
NoTransfer == [some |-> FALSE]

Transfer(token, from, to, value) ==
    [some |-> TRUE, token |-> token, from |-> from, to |-> to, value |-> value]

DecodeLog(c, log) ==
    LET weth == wrapped_native_token(c)
    IN  IF IsTransfer(log)
        THEN Transfer(log.address, log.topics[2], log.topics[3], log.data[1])
        ELSE IF log.address = weth /\ is_weth9(c)
        THEN IF IsWithdrawal(log)
             THEN Transfer(weth, log.topics[2], Zero, log.data[1])
             ELSE IF IsDeposit(log)
             THEN Transfer(weth, Zero, log.topics[2], log.data[1])
             ELSE NoTransfer
        ELSE NoTransfer

---------------------------------------------------------------------------
(* generate_pnl.  A call trace is a sequence of frames                     *)
(* [parent, typ, from, to, value, error, revert_reason, logs]; frame 1 is  *)
(* the top call, frame.calls are the frames naming it as parent, in order. *)
(* only_addresses is [some, set].                                          *)

NoFilter == [some |-> FALSE, set |-> {}]

Only(S) == [some |-> TRUE, set |-> S]

is_relevant_address(only, addr) == ~only.some \/ addr \in only.set

SkipsEitherOutside(only, from, to) ==
    ~is_relevant_address(only, from) \/ ~is_relevant_address(only, to)

\* if !is_relevant_address!(&from) && !is_relevant_address!(&to) { continue; }
SkipsTransfer(only, from, to) ==
    ~is_relevant_address(only, from) /\ ~is_relevant_address(only, to)

IsRevertedErrorOnly(frame) == frame.error

\* frame.error.is_some() || frame.revert_reason.is_some()
IsReverted(frame) == frame.error \/ frame.revert_reason

MovesValue_any_type(typ) == TRUE

MovesValue(typ) == typ \in {"CALL", "CALLCODE", "CREATE", "CREATE2", "SELFDESTRUCT"}

\* frame.calls of frame i, in order
Calls(trace, i) ==
    SelectSeq([j \in 1..Len(trace) |-> j], LAMBDA j : trace[j].parent = i)

\* the sheet and, as the trace!() line of append_transfer records them, the
\* transfers applied to it
Apply(st, token, from, to, value) ==
    [ok |-> TRUE,
     bcs |-> append_transfer(st.bcs, token, from, to, value),
     applied |-> Append(st.applied,
                        [token |-> token, from |-> from, to |-> to, value |-> value])]

Failed(st) == [st EXCEPT !.ok = FALSE]

\* bcs.append_transfer(token, from, to, value) unless the log was skipped or
\* both ends are outside only_addresses
ApplyLog(only, st, t) ==
    IF ~t.some THEN st
    ELSE IF SkipsTransfer(only, t.from, t.to) THEN st
    ELSE Apply(st, t.token, t.from, t.to, t.value)

\* for log in &frame.logs { .. }
RECURSIVE WalkLogs(_, _, _, _)
WalkLogs(c, only, logs, st) ==
    IF logs = <<>> THEN st
    ELSE IF Head(logs).address = NoAddr \/ ~LogIsValid(Head(logs)) THEN Failed(st)
    ELSE WalkLogs(c, only, Tail(logs), ApplyLog(only, st, DecodeLog(c, Head(logs))))

\* the native transfer of a frame, after its logs and its calls were queued
WalkValue(only, frame, st) ==
    IF frame.value = 0 THEN st
    ELSE IF MovesValue(frame.typ)
    THEN LET to   == IF frame.to = NoAddr THEN Zero ELSE frame.to
             from == frame.from
         IN  IF SkipsTransfer(only, from, to) THEN st
             ELSE Apply(st, NATIVE_TOKEN, from, to, frame.value)
    ELSE st

\* while let Some(frame) = stack.pop_front() { .. }: WalkFrames pops the
\* frame and reads its logs, WalkFrame queues its calls and moves its value
RECURSIVE WalkFrames(_, _, _, _, _)
RECURSIVE WalkFrame(_, _, _, _, _)
WalkFrames(c, only, trace, stack, st) ==
    IF stack = <<>> THEN st
    ELSE IF IsReverted(trace[Head(stack)])
    THEN WalkFrames(c, only, trace, Tail(stack), st)
    ELSE WalkFrame(c, only, trace, stack,
                   WalkLogs(c, only, trace[Head(stack)].logs, st))

WalkFrame(c, only, trace, stack, st1) ==
    IF ~st1.ok THEN st1
    ELSE WalkFrames(c, only, trace, Tail(stack) \o Calls(trace, Head(stack)),
                    WalkValue(only, trace[Head(stack)], st1))

EmptyWalk == [ok |-> TRUE, bcs |-> EmptyMap, applied |-> <<>>]

\* bcs.retain_non_zero(); Ok(bcs)
Normalized(st) == IF st.ok THEN [st EXCEPT !.bcs = retain_non_zero(st.bcs)] ELSE st

generate_pnl_no_status_check(c, rcpt, trace, only) ==
    IF wrapped_native_token(c) = NoAddr THEN Failed(EmptyWalk)
    ELSE Normalized(WalkFrames(c, only, trace, <<1>>, EmptyWalk))

generate_pnl_any_chain(c, rcpt, trace, only) ==
    IF ~rcpt.status THEN EmptyWalk
    ELSE Normalized(WalkFrames(c, only, trace, <<1>>, EmptyWalk))

generate_pnl(c, rcpt, trace, only) ==
    IF ~rcpt.status THEN EmptyWalk
    ELSE IF wrapped_native_token(c) = NoAddr THEN Failed(EmptyWalk)
    ELSE Normalized(WalkFrames(c, only, trace, <<1>>, EmptyWalk))

---------------------------------------------------------------------------
(* process_block.  A wallet is [address, builder, other_addresses,         *)
(* include_recipient] (builder = NoAddr when not configured); a receipt is *)
(* [transaction_index, transaction_hash, from, to, status, gas_used,       *)
(* effective_gas_price, l1Fee]; the header is [miner, base_fee_per_gas];   *)
(* receipt_and_traces is a sequence of [receipt, trace].                   *)

Range(seq) == {seq[n] : n \in 1..Len(seq)}

\* WalletWithContext::new: primary, then the builder, then the others
involved_wallets(w) ==
    <<w.address>> \o (IF w.builder # NoAddr THEN <<w.builder>> ELSE <<>>)
                  \o w.other_addresses

find_all_receipients(rts, ws) ==
    { rts[i].receipt.to : i \in
        { j \in 1..Len(rts) :
            /\ rts[j].receipt.status
            /\ rts[j].receipt.to # NoAddr
            /\ \E n \in 1..Len(ws) :
                 ws[n].include_recipient /\ ws[n].address = rts[j].receipt.from } }

all_involved_wallets(rts, ws) ==
    UNION {Range(involved_wallets(ws[n])) : n \in 1..Len(ws)}
        \cup find_all_receipients(rts, ws)

\* the sheet restricted to the given accounts: what the name and the doc
\* comment of clone_and_retain_accounts describe, kept for comparison
clone_and_retain_only(sheet, accounts) ==
    [a \in (DOMAIN sheet) \cap accounts |-> sheet[a]]

\* let mut result = bcs.clone(); then every account of bcs that is in
\* accounts is inserted into result again
clone_and_retain_accounts(sheet, accounts) ==
    LET result == sheet
    IN  [a \in (DOMAIN result) \cup ((DOMAIN sheet) \cap accounts) |->
            IF a \in accounts THEN sheet[a] ELSE result[a]]

\* the (account, token) entries of a sheet
SheetEntries(full) == UNION { {<<a, t>> : t \in DOMAIN full[a]} : a \in DOMAIN full }

is_shitcoin_airdrop_from_any_sender(full, first) ==
    IF Cardinality(DOMAIN full) < 3 THEN FALSE
    ELSE IF SheetEntries(full) = {} THEN FALSE
    ELSE LET token == first[2]
             same_token == \A e \in SheetEntries(full) : e[2] = token
             sender_count ==
                 Cardinality({e \in SheetEntries(full) : is_negative(full[e[1]][e[2]])})
         IN  IF ~same_token THEN FALSE
             ELSE IF sender_count < 1 THEN FALSE
             ELSE TRUE

\* is_shitcoin_airdrop when the iteration of the maps starts at entry first
is_shitcoin_airdrop_from(full, first) ==
    IF Cardinality(DOMAIN full) < 3 THEN FALSE
    ELSE IF SheetEntries(full) = {} THEN FALSE
    ELSE LET token == first[2]
             same_token == \A e \in SheetEntries(full) : e[2] = token
             sender_count ==
                 Cardinality({e \in SheetEntries(full) : is_negative(full[e[1]][e[2]])})
         IN  IF ~same_token THEN FALSE
             ELSE IF sender_count # 1 THEN FALSE
             ELSE TRUE

is_shitcoin_airdrop(full) ==
    IF SheetEntries(full) = {} THEN FALSE
    ELSE is_shitcoin_airdrop_from(full, CHOOSE e \in SheetEntries(full) : TRUE)

RECURSIVE MergeFold(_, _, _)
MergeFold(sheet, todo, acc) ==
    IF todo = {} THEN acc
    ELSE LET a == CHOOSE x \in todo : TRUE
         IN  MergeFold(sheet, todo \ {a},
                       IF a \in DOMAIN sheet THEN extend(acc, sheet[a]) ELSE acc)

\* the fold without the HashSet: every occurrence of an address counts
RECURSIVE MergeEach(_, _, _)
MergeEach(sheet, todo, acc) ==
    IF todo = <<>> THEN acc
    ELSE MergeEach(sheet, Tail(todo),
                   IF Head(todo) \in DOMAIN sheet
                   THEN extend(acc, sheet[Head(todo)]) ELSE acc)

merge_accounts_no_dedup(sheet, accounts, recipient) ==
    BalanceChange_retain_non_zero(
        MergeEach(sheet, accounts \o (IF recipient # NoAddr THEN <<recipient>> ELSE <<>>),
                  EmptyMap))

\* recipient = NoAddr for None
merge_accounts(sheet, accounts, recipient) ==
    LET set == Range(accounts) \cup (IF recipient # NoAddr THEN {recipient} ELSE {})
    IN  BalanceChange_retain_non_zero(MergeFold(sheet, set, EmptyMap))

\* receipt.other.get("l1Fee"): absent, a JSON value that is no string, or a
\* string, kept as its sequence of characters
L1Absent == [present |-> FALSE, is_str |-> FALSE, str |-> <<>>]

L1Number == [present |-> TRUE, is_str |-> FALSE, str |-> <<>>]

L1Str(str) == [present |-> TRUE, is_str |-> TRUE, str |-> str]

\* s.trim_start_matches("0x"): every leading repetition of the prefix goes
RECURSIVE trim_start_matches_0x(_)
trim_start_matches_0x(s) ==
    IF Len(s) >= 2 /\ s[1] = "0" /\ s[2] = "x"
    THEN trim_start_matches_0x(SubSeq(s, 3, Len(s)))
    ELSE s

\* the value of a character as a digit of a radix up to 36, -1 for a
\* character that is neither a digit nor a letter
DigitOf(ch) ==
    CASE ch = "0" -> 0
      [] ch = "1" -> 1
      [] ch = "2" -> 2
      [] ch = "f" -> 15
      [] ch = "x" -> 33
      [] ch = "z" -> 35
      [] OTHER -> -1

\* U256::from_str_radix(src, radix), from the digits read so far: '_' is
\* skipped, any other character that is no digit of the radix is an error,
\* and so is a value that does not fit the word; no digit at all leaves the
\* value at zero
RECURSIVE from_str_radix_from(_, _, _)
from_str_radix_from(src, radix, value) ==
    IF src = <<>> THEN [ok |-> TRUE, value |-> value]
    ELSE IF Head(src) = "_" THEN from_str_radix_from(Tail(src), radix, value)
    ELSE IF DigitOf(Head(src)) < 0 \/ DigitOf(Head(src)) >= radix
         THEN [ok |-> FALSE, value |-> 0]
    ELSE IF value * radix + DigitOf(Head(src)) >= Modulus
         THEN [ok |-> FALSE, value |-> 0]
    ELSE from_str_radix_from(Tail(src), radix, value * radix + DigitOf(Head(src)))

from_str_radix(src, radix) == from_str_radix_from(src, radix, 0)

\* .get("l1Fee").and_then(|v| v.as_str()).map(trim).unwrap_or_default()
l1_fee_string(rcpt) ==
    IF rcpt.l1Fee.present /\ rcpt.l1Fee.is_str
    THEN trim_start_matches_0x(rcpt.l1Fee.str)
    ELSE <<>>

\* extra_cost: [ok, value]; the field is read on Optimism chains only
extra_cost(c, rcpt) ==
    IF is_optimism(c) THEN from_str_radix(l1_fee_string(rcpt), 16)
    ELSE [ok |-> TRUE, value |-> 0]

calculate_tx_fee_sum(c, rcpt) ==
    [ok  |-> extra_cost(c, rcpt).ok,
     fee |-> Add(rcpt.gas_used, rcpt.effective_gas_price)]

calculate_tx_fee(c, rcpt) ==
    [ok  |-> extra_cost(c, rcpt).ok,
     fee |-> Add(Mul(rcpt.gas_used, rcpt.effective_gas_price), extra_cost(c, rcpt).value)]

RECURSIVE calculate_builder_reward(_, _)
calculate_builder_reward(base_fee, rts) ==
    IF rts = <<>> THEN 0
    ELSE Add(Mul(Head(rts).receipt.effective_gas_price - base_fee,
                 Head(rts).receipt.gas_used),
             calculate_builder_reward(base_fee, Tail(rts)))

Max(S) == CHOOSE x \in S : \A y \in S : y <= x

find_validator_bribe_first(all_bcs) ==
    IF all_bcs = <<>> THEN 0
    ELSE LET full == all_bcs[1].full
             ethers == { full[a][NATIVE_TOKEN] : a \in
                           { x \in DOMAIN full :
                               /\ NATIVE_TOKEN \in DOMAIN full[x]
                               /\ is_positive(full[x][NATIVE_TOKEN]) } }
         IN  IF ethers = {} THEN 0 ELSE Max(ethers)

find_validator_bribe(all_bcs) ==
    IF all_bcs = <<>> THEN 0
    ELSE LET full == all_bcs[Len(all_bcs)].full
             ethers == { full[a][NATIVE_TOKEN] : a \in
                           { x \in DOMAIN full :
                               /\ NATIVE_TOKEN \in DOMAIN full[x]
                               /\ is_positive(full[x][NATIVE_TOKEN]) } }
         IN  IF ethers = {} THEN 0 ELSE Max(ethers)

is_builder_any_chain(c, hdr, w) == w.builder # NoAddr /\ hdr.miner = w.builder

is_builder(c, hdr, w) ==
    c = "mainnet" /\ w.builder # NoAddr /\ hdr.miner = w.builder

all_involved_txs_sender_exempt(all_bcs, w) ==
    SelectSeq([i \in 1..Len(all_bcs) |-> i],
              LAMBDA i :
                 /\ \E k \in DOMAIN all_bcs[i].filtered : k \in Range(involved_wallets(w))
                 /\ \/ ~is_shitcoin_airdrop(all_bcs[i].full)
                    \/ \E k \in Range(involved_wallets(w)) \cap DOMAIN all_bcs[i].full :
                          \E t \in DOMAIN all_bcs[i].full[k] :
                             is_negative(all_bcs[i].full[k][t]))

all_involved_txs_any_key(all_bcs, w) ==
    SelectSeq([i \in 1..Len(all_bcs) |-> i],
              LAMBDA i :
                 /\ DOMAIN all_bcs[i].filtered # {}
                 /\ ~is_shitcoin_airdrop(all_bcs[i].full))

\* the indices i whose sheet touches the wallet and is no airdrop
all_involved_txs(all_bcs, w) ==
    SelectSeq([i \in 1..Len(all_bcs) |-> i],
              LAMBDA i :
                 /\ \E k \in DOMAIN all_bcs[i].filtered : k \in Range(involved_wallets(w))
                 /\ ~is_shitcoin_airdrop(all_bcs[i].full))

FoldStep_always_pays(acc, pays, fee, bc) ==
    IF ~fee.ok THEN [acc EXCEPT !.ok = FALSE]
    ELSE [ok |-> acc.ok,
          total_fee |-> Add(acc.total_fee, fee.fee),
          token_changes |-> extend(acc.token_changes, bc)]

\* one round of `for (receipt, bcs) in &all_involved_txs`: the fee is charged
\* when the sender is involved, the merged delta bc is added
FoldStep(acc, pays, fee, bc) ==
    IF pays /\ ~fee.ok THEN [acc EXCEPT !.ok = FALSE]
    ELSE [ok |-> acc.ok,
          total_fee |-> IF pays THEN Add(acc.total_fee, fee.fee) ELSE acc.total_fee,
          token_changes |-> extend(acc.token_changes, bc)]

\* receipt.from.eq(&wallet.address).then_some(receipt.to).flatten()
Recipient(rcpt, w) == IF rcpt.from = w.address THEN rcpt.to ELSE NoAddr

\* for (receipt, bcs) in &all_involved_txs { .. }: [ok, total_fee, token_changes]
RECURSIVE FoldInvolved(_, _, _, _, _, _)
FoldInvolved(c, rts, all_bcs, w, todo, acc) ==
    IF todo = <<>> \/ ~acc.ok THEN acc
    ELSE FoldInvolved(c, rts, all_bcs, w, Tail(todo),
            FoldStep(acc,
                     rts[Head(todo)].receipt.from \in Range(involved_wallets(w)),
                     calculate_tx_fee(c, rts[Head(todo)].receipt),
                     merge_accounts(all_bcs[Head(todo)].filtered, involved_wallets(w),
                                    Recipient(rts[Head(todo)].receipt, w))))

sort_by_index_unsorted(txs) == txs

\* txs.sort_by_key(|t| t.index): a stable insertion sort
RECURSIVE sort_by_index(_)
sort_by_index(txs) ==
    IF txs = <<>> THEN <<>>
    ELSE LET rest == sort_by_index(SubSeq(txs, 1, Len(txs) - 1))
             x    == txs[Len(txs)]
             le   == SelectSeq(rest, LAMBDA t : t.index <= x.index)
             gt   == SelectSeq(rest, LAMBDA t : t.index > x.index)
         IN  le \o <<x>> \o gt

NoReport == [some |-> FALSE]

\* the TxAndPosition of the involved transactions, sorted
ReportTxs(rts, involved) ==
    sort_by_index([n \in 1..Len(involved) |->
                      [index |-> rts[involved[n]].receipt.transaction_index,
                       hash  |-> rts[involved[n]].receipt.transaction_hash]])

\* ether_pnl and the PnlReport, from what extract_ether took out and left
MakeReport(txs, total_fee, ether, builder_reward, validator_bribe) ==
    [some |-> TRUE,
     txs |-> txs,
     pnl |-> Add(Sub(ether.ether, total_fee), builder_reward),
     token_changes |-> ether.rest,
     builder_reward |-> builder_reward,
     validator_bribe |-> validator_bribe]

\* the wallet's round after its fees and token changes were folded
FoldedReport(c, rts, involved, fold, builder_reward, validator_bribe) ==
    IF ~fold.ok THEN [ok |-> FALSE, report |-> NoReport]
    ELSE [ok |-> TRUE,
          report |-> MakeReport(ReportTxs(rts, involved), fold.total_fee,
                        extract_ether(BalanceChange_retain_non_zero(fold.token_changes), c),
                        builder_reward, validator_bribe)]

InvolvedReport_none_without_txs(c, rts, all_bcs, w, involved, builder_reward, validator_bribe) ==
    IF involved = <<>>
    THEN [ok |-> TRUE, report |-> NoReport]
    ELSE FoldedReport(c, rts, involved,
             FoldInvolved(c, rts, all_bcs, w, involved,
                          [ok |-> TRUE, total_fee |-> 0, token_changes |-> EmptyMap]),
             builder_reward, validator_bribe)

\* the wallet's round after all_involved_txs was selected
InvolvedReport(c, rts, all_bcs, w, involved, builder_reward, validator_bribe) ==
    IF involved = <<>> /\ builder_reward = 0
    THEN [ok |-> TRUE, report |-> NoReport]
    ELSE FoldedReport(c, rts, involved,
             FoldInvolved(c, rts, all_bcs, w, involved,
                          [ok |-> TRUE, total_fee |-> 0, token_changes |-> EmptyMap]),
             builder_reward, validator_bribe)

\* (builder_reward, validator_bribe) of a wallet
BuilderReward(c, hdr, rts, w) ==
    IF is_builder(c, hdr, w)
    THEN calculate_builder_reward(hdr.base_fee_per_gas, rts)
    ELSE 0

ValidatorBribe(c, hdr, all_bcs, w) ==
    IF is_builder(c, hdr, w) THEN find_validator_bribe(all_bcs) ELSE 0

\* the body of `for wallet in wallets`: [ok, report]
wallet_report(c, hdr, rts, all_bcs, w) ==
    InvolvedReport(c, rts, all_bcs, w, all_involved_txs(all_bcs, w),
                   BuilderReward(c, hdr, rts, w), ValidatorBribe(c, hdr, all_bcs, w))

\* balance_changes_all.push(BalanceChangesCache { filtered, full })
Cache(universe, gen) ==
    [ok  |-> \A i \in 1..Len(gen) : gen[i].ok,
     all |-> [i \in 1..Len(gen) |->
                [filtered |-> clone_and_retain_accounts(gen[i].bcs, universe),
                 full     |-> gen[i].bcs]]]

\* the first loop of process_block: [ok, all] with all[i] = [filtered, full]
generate_all(c, rts, ws) ==
    Cache(all_involved_wallets(rts, ws),
          [i \in 1..Len(rts) |-> generate_pnl(c, rts[i].receipt, rts[i].trace, NoFilter)])

\* Ok(reports), or the error of the first wallet whose fee fails
Reports(all, per) ==
    IF \E n \in 1..Len(per) : ~per[n].ok
    THEN [ok |-> FALSE, reports |-> <<>>, all |-> all]
    ELSE [ok |-> TRUE, reports |-> [n \in 1..Len(per) |-> per[n].report], all |-> all]

\* the second loop of process_block, given the sheets of the first
ProcessWallets(c, hdr, rts, ws, cache) ==
    IF ~cache.ok THEN [ok |-> FALSE, reports |-> <<>>, all |-> <<>>]
    ELSE Reports(cache.all,
                 [n \in 1..Len(ws) |-> wallet_report(c, hdr, rts, cache.all, ws[n])])

\* process_block: [ok, reports, all]; reports is parallel to wallets
process_block(c, hdr, rts, ws) ==
    ProcessWallets(c, hdr, rts, ws, generate_all(c, rts, ws))

---------------------------------------------------------------------------
(* Inputs of generate_pnl: accounts A and B, frames and logs               *)

A == 1
B == 2
C == 3
D == 4

Log(address, topics, data) == [address |-> address, topics |-> topics, data |-> data]

TransferLog(token, from, to, value) == Log(token, <<"Transfer", from, to>>, <<value>>)

DepositLog(address, dst, wad) == Log(address, <<"Deposit", dst>>, <<wad>>)

WithdrawalLog(address, src, wad) == Log(address, <<"Withdrawal", src>>, <<wad>>)

\* an ERC-721 Transfer: the ERC-20 signature with the token id indexed too
Erc721Log(token, from, to, id) == Log(token, <<"Transfer", from, to, id>>, <<>>)

Frame(typ, from, to, value) ==
    [parent |-> 0, typ |-> typ, from |-> from, to |-> to, value |-> value,
     error |-> FALSE, revert_reason |-> FALSE, logs |-> <<>>]

LogChoices ==
    { TransferLog(TokenX, A, B, 1), TransferLog(TokenX, Zero, A, 2),
      TransferLog(Weth, A, B, HighBit),
      TransferLog(NoAddr, A, B, 1), Erc721Log(TokenX, B, A, 1),
      DepositLog(Weth, A, 1), WithdrawalLog(Weth, B, 2),
      DepositLog(TokenX, A, 1) }

FrameChoices ==
    { Frame("CALL", A, B, 1), Frame("CALL", B, A, 2), Frame("CALL", A, B, 0), Frame("DELEGATECALL", A, B, 1),
      Frame("STATICCALL", B, A, 1),
      Frame("CREATE", A, NoAddr, 1), Frame("SELFDESTRUCT", B, A, HighBit),
      [Frame("CALL", A, B, 1) EXCEPT !.error = TRUE],
      [Frame("CALL", B, Weth, 2) EXCEPT !.revert_reason = TRUE] }

FilterChoices == { {A}, {Zero, B} }

PnlEnvs == { <<"mainnet", TRUE>>, <<"arbitrum", TRUE>>, <<"mainnet", FALSE>> }

NoReceipt == [status |-> FALSE]

RECURSIVE CountLogs(_)
CountLogs(trace) ==
    IF trace = <<>> THEN 0 ELSE Len(Head(trace).logs) + CountLogs(Tail(trace))

---------------------------------------------------------------------------
(* SpecPnl: one transaction's receipt and call trace arrive piece by       *)
(* piece, then generate_pnl runs on them, without and with a filter.       *)

InitPnl ==
    /\ pc = "build"
    /\ ExtIdle
    /\ \E env \in PnlEnvs :
         /\ chain = env[1]
         /\ receipt = [status |-> env[2]]
    /\ \E f \in FrameChoices : call_trace = <<f>>
    /\ only_addresses = NoFilter
    /\ bcs = EmptyWalk
    /\ bcs_only = EmptyWalk
    /\ header = <<>>
    /\ receipt_and_traces = <<>>
    /\ wallets = <<>>
    /\ reports = <<>>
    /\ balance_changes_all = <<>>
    /\ full_bcs = EmptyMap
    /\ first_entry = <<>>
    /\ airdrop = FALSE

PnlOther == <<header, receipt_and_traces, wallets, reports, balance_changes_all,
              full_bcs, first_entry, airdrop, ExtVars>>

\* a frame is added to the calls of frame parent
AddFrame(parent, f) ==
    /\ pc = "build"
    /\ Len(call_trace) + CountLogs(call_trace) < MaxItems
    /\ call_trace' = Append(call_trace, [f EXCEPT !.parent = parent])
    /\ UNCHANGED <<pc, chain, receipt, only_addresses, bcs, bcs_only>>
    /\ UNCHANGED PnlOther

\* a log is added to the logs of frame i
AddLog(i, log) ==
    /\ pc = "build"
    /\ Len(call_trace) + CountLogs(call_trace) < MaxItems
    /\ call_trace' = [call_trace EXCEPT ![i].logs = Append(@, log)]
    /\ UNCHANGED <<pc, chain, receipt, only_addresses, bcs, bcs_only>>
    /\ UNCHANGED PnlOther

\* generate_pnl(chain, receipt, call_trace, None) and
\* generate_pnl(chain, receipt, call_trace, Some(S))
RunGeneratePnl(S) ==
    /\ pc = "build"
    /\ pc' = "done"
    /\ only_addresses' = Only(S)
    /\ bcs' = generate_pnl(chain, receipt, call_trace, NoFilter)
    /\ bcs_only' = generate_pnl(chain, receipt, call_trace, Only(S))
    /\ UNCHANGED <<chain, receipt, call_trace>>
    /\ UNCHANGED PnlOther

NextPnl ==
    \/ \E parent \in 1..Len(call_trace), f \in FrameChoices : AddFrame(parent, f)
    \/ \E i \in 1..Len(call_trace), log \in LogChoices : AddLog(i, log)
    \/ \E S \in FilterChoices : RunGeneratePnl(S)

SpecPnl == InitPnl /\ [][NextPnl]_vars

---------------------------------------------------------------------------
(* Properties of generate_pnl (SpecPnl)                                    *)

AddressUniverse == {Zero, A, B, Weth}

RECURSIVE SheetSum(_, _, _)
SheetSum(sheet, token, accounts) ==
    IF accounts = {} THEN 0
    ELSE LET a == CHOOSE x \in accounts : TRUE
         IN  Add(IF token \in DOMAIN sheet[a] THEN sheet[a][token] ELSE 0,
                 SheetSum(sheet, token, accounts \ {a}))

RECURSIVE TotalValue(_)
TotalValue(transfers) ==
    IF transfers = <<>> THEN 0
    ELSE Add(Head(transfers).value, TotalValue(Tail(transfers)))

\* total value of the applied transfers of token whose from is the zero address
MintTotal(applied, token) ==
    TotalValue(SelectSeq(applied, LAMBDA t : t.token = token /\ t.from = Zero))

\* total value of the applied transfers of token whose to is the zero address
BurnTotal(applied, token) ==
    TotalValue(SelectSeq(applied, LAMBDA t : t.token = token /\ t.to = Zero))

TokensSeen(walk) ==
    {walk.applied[n].token : n \in 1..Len(walk.applied)}
        \cup UNION {DOMAIN walk.bcs[a] : a \in DOMAIN walk.bcs}

\* C7 (Conservation): in every sheet generate_pnl returns without a filter,
\* each token's deltas summed over all accounts equal, modulo 2^WordBits, the
\* value of the applied transfers from the zero address minus the value of
\* those to the zero address; the sum is zero for a token without either.
C7_Conservation ==
    (pc = "done" /\ bcs.ok) =>
        \A token \in TokensSeen(bcs) :
            SheetSum(bcs.bcs, token, DOMAIN bcs.bcs)
                = Sub(MintTotal(bcs.applied, token), BurnTotal(bcs.applied, token))

\* a sheet with a token that was minted or burnt (non-zero residual) and a
\* token that only moved between accounts
C7_Witness ==
    /\ pc = "done"
    /\ bcs.ok
    /\ \E t1, t2 \in TokensSeen(bcs) :
         /\ SheetSum(bcs.bcs, t1, DOMAIN bcs.bcs) # 0
         /\ SheetSum(bcs.bcs, t2, DOMAIN bcs.bcs) = 0
         /\ \E a \in DOMAIN bcs.bcs : t2 \in DOMAIN bcs.bcs[a]

AgreeOn(sheet1, sheet2, k) ==
    /\ k \in DOMAIN sheet1 <=> k \in DOMAIN sheet2
    /\ k \in DOMAIN sheet1 => sheet1[k] = sheet2[k]

\* C8 (Filter correctness): for every address set S, generate_pnl with
\* only_addresses = S fails exactly when the unfiltered run fails, and
\* otherwise its sheet agrees with the unfiltered sheet on every key in S.
C8_FilterCorrect ==
    pc = "done" =>
        /\ bcs_only.ok = bcs.ok
        /\ bcs.ok => \A k \in only_addresses.set : AgreeOn(bcs_only.bcs, bcs.bcs, k)
        /\ \A S \in SUBSET AddressUniverse :
             LET f == generate_pnl(chain, receipt, call_trace, Only(S))
             IN  /\ f.ok = bcs.ok
                 /\ bcs.ok => \A k \in S : AgreeOn(f.bcs, bcs.bcs, k)

\* the filter dropped a transfer while a key of S has an entry
C8_Witness ==
    /\ pc = "done"
    /\ bcs.ok
    /\ Len(bcs_only.applied) < Len(bcs.applied)
    /\ bcs_only.bcs # bcs.bcs
    /\ only_addresses.set \cap DOMAIN bcs.bcs # {}

RECURSIVE InSubtree(_, _, _)
InSubtree(trace, j, k) ==
    IF j = k THEN TRUE
    ELSE IF j <= 1 THEN FALSE
    ELSE InSubtree(trace, trace[j].parent, k)

\* the call trace without frame k and its descendants
RemoveSubtree(trace, k) ==
    LET kept == SelectSeq([j \in 1..Len(trace) |-> j],
                          LAMBDA j : ~InSubtree(trace, j, k))
        NewIndex(p) == IF p = 0 THEN 0 ELSE CHOOSE n \in 1..Len(kept) : kept[n] = p
    IN  [n \in 1..Len(kept) |-> [trace[kept[n]] EXCEPT !.parent = NewIndex(@)]]

\* C9 (Reverted isolation): a child frame whose error or revert_reason is
\* set, whatever its logs, value and descendants, contributes nothing: the
\* result of generate_pnl equals the result on the trace without that frame
\* and its subtree.
C9_RevertedIsolation ==
    pc = "done" =>
        \A k \in 2..Len(call_trace) :
            (call_trace[k].error \/ call_trace[k].revert_reason) =>
                LET without == generate_pnl(chain, receipt,
                                            RemoveSubtree(call_trace, k), NoFilter)
                IN  /\ without.ok = bcs.ok
                    /\ without.bcs = bcs.bcs

\* a successful transaction with a non-empty sheet whose trace holds a
\* reverted child that carries value and a log or a descendant
C9_Witness ==
    /\ pc = "done"
    /\ receipt.status
    /\ bcs.ok
    /\ bcs.bcs # EmptyMap
    /\ \E k \in 2..Len(call_trace) :
         /\ call_trace[k].error \/ call_trace[k].revert_reason
         /\ call_trace[k].value # 0
         /\ MovesValue(call_trace[k].typ)
         /\ \/ call_trace[k].logs # <<>>
            \/ \E j \in 1..Len(call_trace) : call_trace[j].parent = k

\* frame k is reached by the walk: neither it nor a frame above it is
\* reverted
RECURSIVE Visited(_)
Visited(k) ==
    /\ ~call_trace[k].error
    /\ ~call_trace[k].revert_reason
    /\ k > 1 => Visited(call_trace[k].parent)

\* the native transfer frame k stands for
NativeOf(k) ==
    [token |-> NATIVE_TOKEN, from |-> call_trace[k].from,
     to |-> IF call_trace[k].to = NoAddr THEN Zero ELSE call_trace[k].to,
     value |-> call_trace[k].value]

ValueTypes == {"CALL", "CALLCODE", "CREATE", "CREATE2", "SELFDESTRUCT"}

\* frame k passes the gate
Gated(k) ==
    /\ Visited(k)
    /\ call_trace[k].value # 0
    /\ call_trace[k].typ \in ValueTypes

\* C23 (Native-value gate): on a successful transaction whose walk does not
\* fail, the native transfers applied to the sheet are, one for one, those of
\* the frames that are reached, carry a non-zero value and have one of the
\* types CALL, CALLCODE, CREATE, CREATE2, SELFDESTRUCT, from frame.from to
\* frame.to or the zero address; a frame of another type or without value
\* adds none, and the calls of every reached frame are reached too.
C23_NativeValueGate ==
    (pc = "done" /\ receipt.status /\ bcs.ok) =>
        LET native == SelectSeq(bcs.applied, LAMBDA t : t.token = NATIVE_TOKEN)
            frames == 1..Len(call_trace)
        IN  /\ \A r \in {NativeOf(k) : k \in frames} \cup Range(native) :
                   Cardinality({n \in 1..Len(native) : native[n] = r})
                       = Cardinality({k \in frames : Gated(k) /\ NativeOf(k) = r})
            /\ Len(native) = Cardinality({k \in frames : Gated(k)})

\* a DELEGATECALL or STATICCALL frame with value moved nothing while the
\* call below it moved its value
C23_Witness ==
    /\ pc = "done"
    /\ receipt.status
    /\ bcs.ok
    /\ \E k, j \in 1..Len(call_trace) :
         /\ Visited(k)
         /\ call_trace[k].value # 0
         /\ call_trace[k].typ \in {"DELEGATECALL", "STATICCALL"}
         /\ call_trace[j].parent = k
         /\ Gated(j)
         /\ \E n \in 1..Len(bcs.applied) : bcs.applied[n] = NativeOf(j)
         /\ Len(SelectSeq(bcs.applied, LAMBDA t : t.token = NATIVE_TOKEN)) = 1

Weth9Chains == {"mainnet", "bsc", "polygon", "optimism", "base", "blast"}

\* the logs the walk reads: <<k, m>> is log m of the reached frame k
LogsReached ==
    UNION { {<<k, m>> : m \in 1..Len(call_trace[k].logs)} :
            k \in {j \in 1..Len(call_trace) : Visited(j)} }

HasShape(log, sig, nTopics) ==
    /\ Len(log.topics) = nTopics
    /\ log.topics[1] = sig
    /\ Len(log.data) = 1

\* the transfers a log is to be recorded as: one or none
RecordedAs(log) ==
    IF HasShape(log, "Transfer", 3)
    THEN {[token |-> log.address, from |-> log.topics[2], to |-> log.topics[3],
           value |-> log.data[1]]}
    ELSE IF log.address = Weth /\ chain \in Weth9Chains
    THEN IF HasShape(log, "Withdrawal", 2)
         THEN {[token |-> Weth, from |-> log.topics[2], to |-> Zero,
                value |-> log.data[1]]}
         ELSE IF HasShape(log, "Deposit", 2)
         THEN {[token |-> Weth, from |-> Zero, to |-> log.topics[2],
                value |-> log.data[1]]}
         ELSE {}
    ELSE {}

LogAt(e) == call_trace[e[1]].logs[e[2]]

\* C24 (Log decoding priority and WETH9 gate): on a successful transaction
\* whose walk does not fail, the token transfers applied to the sheet are,
\* one for one, those of the logs read: a log that decodes as ERC-20
\* Transfer is a transfer of token log.address, also when log.address is the
\* wrapped-native contract; a Withdrawal or Deposit is a burn or mint of the
\* wrapped-native token only when log.address is the chain's wrapped-native
\* address and the chain is one of Mainnet, BSC, Polygon, Optimism, Base,
\* Blast; every other log changes nothing.
C24_LogDecoding ==
    (pc = "done" /\ receipt.status /\ bcs.ok) =>
        LET tokens == SelectSeq(bcs.applied, LAMBDA t : t.token # NATIVE_TOKEN)
        IN  /\ \A r \in UNION {RecordedAs(LogAt(e)) : e \in LogsReached}
                            \cup Range(tokens) :
                   Cardinality({n \in 1..Len(tokens) : tokens[n] = r})
                       = Cardinality({e \in LogsReached : r \in RecordedAs(LogAt(e))})
            /\ Len(tokens)
                   = Cardinality({e \in LogsReached : RecordedAs(LogAt(e)) # {}})

\* on mainnet a Transfer log of the wrapped-native contract was applied as a
\* transfer between its two accounts, while a Deposit log of another
\* contract was read and left nothing
C24_Witness ==
    /\ pc = "done"
    /\ receipt.status
    /\ bcs.ok
    /\ chain = "mainnet"
    /\ \E e1, e2 \in LogsReached :
         /\ LogAt(e1).address = Weth
         /\ HasShape(LogAt(e1), "Transfer", 3)
         /\ \E n \in 1..Len(bcs.applied) :
              /\ bcs.applied[n].token = Weth
              /\ bcs.applied[n].from = LogAt(e1).topics[2]
              /\ bcs.applied[n].to = LogAt(e1).topics[3]
         /\ HasShape(LogAt(e2), "Deposit", 2)
         /\ LogAt(e2).address # Weth
         /\ Len(SelectSeq(bcs.applied, LAMBDA t : t.token # NATIVE_TOKEN)) = 1

---------------------------------------------------------------------------
(* Inputs of process_block                                                 *)

Wallet(address, builder, other_addresses, include_recipient) ==
    [address |-> address, builder |-> builder,
     other_addresses |-> other_addresses, include_recipient |-> include_recipient]

WalletA == Wallet(A, NoAddr, <<>>, FALSE)

WalletARecipient == Wallet(A, NoAddr, <<>>, TRUE)

WalletBuilder == Wallet(B, C, <<>>, FALSE)

WalletD == Wallet(D, NoAddr, <<>>, FALSE)

\* (chain, header.miner, wallets); header.base_fee_per_gas is 1
BlockEnvs ==
    { <<"mainnet", C, <<WalletA>> >>,
      <<"mainnet", C, <<WalletA, WalletD>> >>,
      <<"mainnet", C, <<WalletBuilder>> >>,
      <<"mainnet", D, <<WalletBuilder, WalletA>> >>,
      <<"arbitrum", C, <<WalletBuilder>> >>,
      <<"mainnet", C, <<WalletARecipient>> >>,
      <<"mainnet", C, <<WalletARecipient, WalletA, WalletBuilder>> >>,
      <<"unknown", C, <<WalletA>> >> }

\* a transaction whose receipt names the top call's from and to; PushTx
\* sets transaction_index and transaction_hash
Tx(status, gas_used, effective_gas_price, root, logs, calls) ==
    [receipt |-> [transaction_index |-> 0, transaction_hash |-> 0,
                  from |-> root.from, to |-> root.to, status |-> status,
                  gas_used |-> gas_used, effective_gas_price |-> effective_gas_price,
                  l1Fee |-> L1Absent],
     trace |-> <<[root EXCEPT !.logs = logs]>>
                 \o [n \in 1..Len(calls) |-> [calls[n] EXCEPT !.parent = 1]]]

TxChoices ==
    { \* A sends native value to B
      Tx(TRUE, 1, 1, Frame("CALL", A, B, 1), <<>>, <<>>),
      Tx(TRUE, 2, 2, Frame("CALL", A, B, 2), <<>>, <<>>),
      \* A wraps native value
      Tx(TRUE, 1, 2, Frame("CALL", A, Weth, 2), <<DepositLog(Weth, A, 2)>>, <<>>),
      \* A sends token X to D
      Tx(TRUE, 1, 1, Frame("CALL", A, TokenX, 0), <<TransferLog(TokenX, A, D, 1)>>, <<>>),
      \* A sends token X to B, C and D
      Tx(TRUE, 1, 1, Frame("CALL", A, TokenX, 0),
         <<TransferLog(TokenX, A, B, 1), TransferLog(TokenX, A, C, 1),
           TransferLog(TokenX, A, D, 1)>>, <<>>),
      \* C sends token X to A, B and D
      Tx(TRUE, 1, 2, Frame("CALL", C, TokenX, 0),
         <<TransferLog(TokenX, C, A, 1), TransferLog(TokenX, C, B, 1),
           TransferLog(TokenX, C, D, 1)>>, <<>>),
      \* the builder C pays D, and through D pays B
      Tx(TRUE, 1, 1, Frame("CALL", C, D, 3), <<>>, <<Frame("CALL", D, B, 1)>>),
      \* B calls a contract that emits a log without an address
      Tx(TRUE, 1, 1, Frame("CALL", B, D, 0), <<TransferLog(NoAddr, B, D, 1)>>, <<>>),
      \* a failed send of A, the top call reverted
      Tx(FALSE, 1, 2, [Frame("CALL", A, B, 1) EXCEPT !.error = TRUE], <<>>, <<>>),
      \* a failed receipt whose trace would move value and has a bad log
      Tx(FALSE, 2, 1, Frame("CALL", B, A, 1), <<TransferLog(NoAddr, B, A, 1)>>, <<>>) }

---------------------------------------------------------------------------
(* SpecBlock: the receipts and traces of a block are supplied one by one,  *)
(* then process_block runs on them.                                        *)

InitBlock ==
    /\ pc = "build"
    /\ ExtIdle
    /\ \E env \in BlockEnvs :
         /\ chain = env[1]
         /\ header = [miner |-> env[2], base_fee_per_gas |-> 1]
         /\ wallets = env[3]
    /\ receipt_and_traces = <<>>
    /\ reports = [ok |-> FALSE, reports |-> <<>>]
    /\ balance_changes_all = <<>>
    /\ receipt = NoReceipt
    /\ call_trace = <<>>
    /\ only_addresses = NoFilter
    /\ bcs = EmptyWalk
    /\ bcs_only = EmptyWalk
    /\ full_bcs = EmptyMap
    /\ first_entry = <<>>
    /\ airdrop = FALSE

BlockOther == <<receipt, call_trace, only_addresses, bcs, bcs_only,
                full_bcs, first_entry, airdrop, ExtVars>>

\* the transaction_index values already supplied
UsedIndexes ==
    { receipt_and_traces[i].receipt.transaction_index : i \in 1..Len(receipt_and_traces) }

\* the next (receipt, trace) handed to process_block; the receipts of a
\* block carry distinct transaction_index values and come in any order
PushTx(tx, index) ==
    /\ pc = "build"
    /\ Len(receipt_and_traces) < MaxTxs
    /\ index \notin UsedIndexes
    /\ receipt_and_traces' =
         Append(receipt_and_traces,
                [tx EXCEPT !.receipt.transaction_index = index,
                           !.receipt.transaction_hash = index + 1])
    /\ UNCHANGED <<pc, chain, header, wallets, reports, balance_changes_all>>
    /\ UNCHANGED BlockOther

\* process_block(chain, header, receipt_and_traces, wallets)
RunProcessBlock ==
    /\ pc = "build"
    /\ pc' = "done"
    /\ \E r \in {process_block(chain, header, receipt_and_traces, wallets)} :
         /\ reports' = [ok |-> r.ok, reports |-> r.reports]
         /\ balance_changes_all' = r.all
    /\ UNCHANGED <<chain, header, wallets, receipt_and_traces>>
    /\ UNCHANGED BlockOther

NextBlock ==
    \/ \E tx \in TxChoices, index \in 0..(MaxTxs - 1) : PushTx(tx, index)
    \/ RunProcessBlock

SpecBlock == InitBlock /\ [][NextBlock]_vars

---------------------------------------------------------------------------
(* Properties of process_block (SpecBlock)                                 *)

Done == pc = "done" /\ reports.ok

Wallets == 1..Len(wallets)

Txs == 1..Len(receipt_and_traces)

InvolvedSet(n) ==
    {wallets[n].address} \cup (IF wallets[n].builder # NoAddr
                                THEN {wallets[n].builder} ELSE {})
                         \cup Range(wallets[n].other_addresses)

\* every address a transaction names: in its receipt, frames and logs
TxAddresses(tx) ==
    {tx.receipt.from, tx.receipt.to}
        \cup UNION { {tx.trace[k].from, tx.trace[k].to}
                       \cup UNION { {tx.trace[k].logs[m].topics[q] :
                                        q \in 2..Len(tx.trace[k].logs[m].topics)} :
                                    m \in 1..Len(tx.trace[k].logs) } :
                     k \in 1..Len(tx.trace) }

\* the wallet is the builder of the block
WalletIsBuilder(n) ==
    /\ chain = "mainnet"
    /\ wallets[n].builder # NoAddr
    /\ header.miner = wallets[n].builder

\* gas_used * effective_gas_price
GasFee(i) ==
    (receipt_and_traces[i].receipt.gas_used
        * receipt_and_traces[i].receipt.effective_gas_price) % Modulus

\* transaction i is the only one of the block that names an address of wallet n
OnlyTxOf(i, n) ==
    \A j \in Txs \ {i} : TxAddresses(receipt_and_traces[j]) \cap InvolvedSet(n) = {}

\* transaction i is nothing but a successful top-level CALL from a to b
\* carrying value, with the given logs
IsTopLevelCall(i, a, b, logs) ==
    LET tx == receipt_and_traces[i]
    IN  /\ tx.receipt.status
        /\ tx.receipt.from = a
        /\ tx.receipt.to = b
        /\ Len(tx.trace) = 1
        /\ tx.trace[1].typ = "CALL"
        /\ tx.trace[1].from = a
        /\ tx.trace[1].to = b
        /\ ~tx.trace[1].error /\ ~tx.trace[1].revert_reason
        /\ tx.trace[1].value > 0
        /\ tx.trace[1].logs = logs

\* C1 (Pure native send): a wallet with primary address A and
\* include_recipient = false, whose only transaction in the block is a
\* successful top-level CALL from A to an address B outside every involved
\* set, carrying value v > 0 and no logs, gets a report with
\* pnl = -v - gas_used * effective_gas_price.
C1_PureNativeSend ==
    Done =>
        \A n \in Wallets, i \in Txs :
            LET a  == wallets[n].address
                b  == receipt_and_traces[i].receipt.to
                v  == receipt_and_traces[i].trace[1].value
            IN  ( /\ ~wallets[n].include_recipient
                  /\ ~WalletIsBuilder(n)
                  /\ ~is_optimism(chain)
                  /\ b # NoAddr
                  /\ \A m \in Wallets : b \notin InvolvedSet(m)
                  /\ IsTopLevelCall(i, a, b, <<>>)
                  /\ OnlyTxOf(i, n) )
                => /\ reports.reports[n].some
                   /\ reports.reports[n].pnl = Sub(Neg(v), GasFee(i))

\* C2 (WETH deposit on mainnet): a wallet with primary address A and
\* include_recipient = false, whose only transaction in the block is a
\* successful top-level CALL from A to the wrapped-native contract with value
\* v > 0 and the log Deposit(dst = A, wad = v), gets a report with empty
\* token_changes and pnl = -fee.
C2_WethDeposit ==
    Done =>
        \A n \in Wallets, i \in Txs :
            LET a  == wallets[n].address
                v  == receipt_and_traces[i].trace[1].value
            IN  ( /\ chain = "mainnet"
                  /\ ~wallets[n].include_recipient
                  /\ ~WalletIsBuilder(n)
                  /\ IsTopLevelCall(i, a, Weth, <<DepositLog(Weth, a, v)>>)
                  /\ OnlyTxOf(i, n) )
                => /\ reports.reports[n].some
                   /\ reports.reports[n].token_changes = EmptyMap
                   /\ reports.reports[n].pnl = Neg(GasFee(i))

\* the full sheet of transaction i
FullSheet(i) ==
    generate_pnl(chain, receipt_and_traces[i].receipt,
                 receipt_and_traces[i].trace, NoFilter).bcs

\* in sheet full, s alone sends token x and three or more accounts receive it
AirdropPattern(full, s, x) ==
    /\ s \in DOMAIN full
    /\ DOMAIN full[s] = {x}
    /\ is_negative(full[s][x])
    /\ Cardinality((DOMAIN full) \ {s}) >= 3
    /\ \A r \in (DOMAIN full) \ {s} : DOMAIN full[r] = {x} /\ is_positive(full[r][x])

Listed(n, i) ==
    /\ reports.reports[n].some
    /\ \E q \in 1..Len(reports.reports[n].txs) :
         reports.reports[n].txs[q].index = receipt_and_traces[i].receipt.transaction_index

\* C3 as claimed (Airdrop sender still reports): when a transaction's sheet
\* is one sender S sending one token X to three or more recipients, a wallet
\* whose involved set contains S gets a report that lists the transaction
\* and holds its negative X delta.
C3_SenderStillReports ==
    Done =>
        \A n \in Wallets, i \in Txs :
            \A s \in InvolvedSet(n), x \in {TokenX, TokenY} :
                (AirdropPattern(FullSheet(i), s, x) /\ OnlyTxOf(i, n))
                => /\ Listed(n, i)
                   /\ x \in DOMAIN reports.reports[n].token_changes
                   /\ is_negative(reports.reports[n].token_changes[x])

\* C3 as amended: a transaction whose sheet is one sender S sending one token
\* X to three or more recipients is listed for no wallet, the sender's
\* included; a wallet that is not the block's builder and has no other
\* transaction in the block gets no report, be it sender or recipient.
C3_AirdropListedForNobody ==
    Done =>
        \A n \in Wallets, i \in Txs :
            \A s \in DOMAIN FullSheet(i), x \in {TokenX, TokenY} :
                AirdropPattern(FullSheet(i), s, x)
                => /\ ~Listed(n, i)
                   /\ (OnlyTxOf(i, n) /\ ~WalletIsBuilder(n)) => ~reports.reports[n].some

\* the sender of an airdrop is a tracked wallet and gets no report
C3_Witness ==
    /\ Done
    /\ \E n \in Wallets, i \in Txs :
         /\ AirdropPattern(FullSheet(i), wallets[n].address, TokenX)
         /\ OnlyTxOf(i, n)
         /\ ~reports.reports[n].some

\* C4 (Failed transaction): for a receipt with status = false generate_pnl
\* returns the empty sheet without an error, on every chain and whatever the
\* trace holds; a block of failed transactions only is processed without
\* error; and a wallet that is not the block's builder and all of whose
\* transactions in the block failed gets no report.
C4_FailedTx ==
    pc = "done" =>
        /\ \A i \in Txs :
             ~receipt_and_traces[i].receipt.status =>
                 /\ \A c \in Chains, S \in {{}, {A}} :
                      /\ generate_pnl(c, receipt_and_traces[i].receipt,
                                      receipt_and_traces[i].trace, NoFilter) = EmptyWalk
                      /\ generate_pnl(c, receipt_and_traces[i].receipt,
                                      receipt_and_traces[i].trace, Only(S)) = EmptyWalk
                 /\ reports.ok => balance_changes_all[i].full = EmptyMap
        /\ (\A i \in Txs : ~receipt_and_traces[i].receipt.status) => reports.ok
        /\ reports.ok =>
             \A n \in Wallets :
                 ( /\ ~WalletIsBuilder(n)
                   /\ \A i \in Txs :
                        receipt_and_traces[i].receipt.status =>
                            TxAddresses(receipt_and_traces[i]) \cap InvolvedSet(n) = {} )
                 => ~reports.reports[n].some

\* a wallet sent a transaction that failed, whose trace is not reverted,
\* carries value and holds a log without address, and gets no report
C4_Witness ==
    /\ Done
    /\ \E n \in Wallets, i \in Txs :
         /\ ~receipt_and_traces[i].receipt.status
         /\ ~receipt_and_traces[i].trace[1].error
         /\ receipt_and_traces[i].trace[1].value # 0
         /\ \E m \in 1..Len(receipt_and_traces[i].trace[1].logs) :
              receipt_and_traces[i].trace[1].logs[m].address = NoAddr
         /\ receipt_and_traces[i].receipt.from \in InvolvedSet(n)
         /\ ~WalletIsBuilder(n)
         /\ ~reports.reports[n].some

\* the priority fees of the first k transactions of the block
RECURSIVE PriorityFees(_)
PriorityFees(k) ==
    IF k = 0 THEN 0
    ELSE ( PriorityFees(k - 1)
           + (receipt_and_traces[k].receipt.effective_gas_price - header.base_fee_per_gas)
               * receipt_and_traces[k].receipt.gas_used ) % Modulus

\* C5 (Builder reward): a report's builder_reward is the sum over all
\* receipts of (effective_gas_price - base_fee) * gas_used when the chain is
\* mainnet, the wallet has a builder and header.miner is that builder, and a
\* non-zero such sum always yields a report; in every other case
\* builder_reward and validator_bribe are zero.
C5_BuilderReward ==
    Done =>
        \A n \in Wallets :
            LET sum == PriorityFees(Len(receipt_and_traces))
            IN  /\ (WalletIsBuilder(n) /\ sum # 0) => reports.reports[n].some
                /\ reports.reports[n].some =>
                     IF WalletIsBuilder(n)
                     THEN reports.reports[n].builder_reward = sum
                     ELSE /\ reports.reports[n].builder_reward = 0
                          /\ reports.reports[n].validator_bribe = 0

\* the builder of a block of two transactions that both pay a priority fee
C5_Witness ==
    /\ Done
    /\ Len(receipt_and_traces) = 2
    /\ \A i \in Txs :
         receipt_and_traces[i].receipt.effective_gas_price > header.base_fee_per_gas
    /\ \E n \in Wallets :
         /\ WalletIsBuilder(n)
         /\ reports.reports[n].some
         /\ reports.reports[n].builder_reward # 0
         /\ reports.reports[n].txs = <<>>

\* the strictly positive native deltas of a sheet
PositiveNative(full) ==
    { full[a][Zero] : a \in {x \in DOMAIN full : Zero \in DOMAIN full[x]
                                                  /\ full[x][Zero] > 0
                                                  /\ full[x][Zero] < HighBit} }

\* C6 (Validator bribe): in the report of the block's builder,
\* validator_bribe is the greatest strictly positive native delta of the
\* full sheet of the last transaction of the block, and zero when that sheet
\* has none; for a block without transactions the bribe is zero.
C6_ValidatorBribe ==
    /\ find_validator_bribe(<<>>) = 0
    /\ Done =>
        \A n \in Wallets :
            (WalletIsBuilder(n) /\ reports.reports[n].some) =>
                LET bribe == reports.reports[n].validator_bribe
                    pos == IF receipt_and_traces = <<>> THEN {}
                           ELSE PositiveNative(FullSheet(Len(receipt_and_traces)))
                IN  IF pos = {} THEN bribe = 0
                    ELSE bribe \in pos /\ \A y \in pos : y <= bribe

\* the builder's report for a block whose last transaction has two positive
\* native deltas and whose first transaction has another greatest one
C6_Witness ==
    /\ Done
    /\ Len(receipt_and_traces) = 2
    /\ Cardinality(PositiveNative(FullSheet(2))) = 2
    /\ PositiveNative(FullSheet(1)) # {}
    /\ \E n \in Wallets :
         /\ WalletIsBuilder(n)
         /\ reports.reports[n].some
         /\ reports.reports[n].validator_bribe # 0
         /\ reports.reports[n].validator_bribe \notin PositiveNative(FullSheet(1))

\* C11 (Report ordering): in every report process_block returns, txs is
\* strictly increasing by index, in whatever order the receipts (with
\* pairwise distinct transaction_index) were supplied.
C11_ReportOrdering ==
    Done =>
        \A n \in Wallets :
            reports.reports[n].some =>
                \A q \in 1..(Len(reports.reports[n].txs) - 1) :
                    reports.reports[n].txs[q].index < reports.reports[n].txs[q + 1].index

\* a report that lists two transactions which were supplied in decreasing
\* order of transaction_index
C11_Witness ==
    /\ Done
    /\ Len(receipt_and_traces) >= 2
    /\ receipt_and_traces[1].receipt.transaction_index
         > receipt_and_traces[2].receipt.transaction_index
    /\ \E n \in Wallets : Listed(n, 1) /\ Listed(n, 2)

\* process_block on the same chain, header and transactions for wallet n alone
Alone(n) == process_block(chain, header, receipt_and_traces, <<wallets[n]>>)

\* C13 (Wallet independence): when process_block succeeds its output has one
\* entry per wallet, in the order of the wallets, and the entry of wallet n is
\* the single entry process_block returns for the wallet list reduced to
\* wallet n, whatever the other wallets are.
C13_WalletIndependence ==
    Done =>
        /\ Len(reports.reports) = Len(wallets)
        /\ \A n \in Wallets :
             /\ Alone(n).ok
             /\ Len(Alone(n).reports) = 1
             /\ reports.reports[n] = Alone(n).reports[1]

\* a block processed for three wallets, two of them with the same address and
\* one of these with include_recipient, in which a transaction sent by that
\* address to the third wallet's address is listed for all three
C13_Witness ==
    /\ Done
    /\ Len(wallets) >= 3
    /\ \E n, m, k \in Wallets :
         /\ n # m
         /\ wallets[n].address = wallets[m].address
         /\ wallets[n].include_recipient
         /\ ~wallets[m].include_recipient
         /\ wallets[k].address # wallets[n].address
         /\ \E i \in Txs :
              /\ receipt_and_traces[i].receipt.from = wallets[n].address
              /\ receipt_and_traces[i].receipt.to = wallets[k].address
              /\ Listed(n, i) /\ Listed(m, i) /\ Listed(k, i)

\* C19 (Universe filtering): the filtered sheet process_block keeps for a
\* transaction has only accounts of the universe (the wallets' involved sets
\* and the forwarded recipients), and on those it equals the full sheet.
C19_UniverseFiltering ==
    Done =>
        \A i \in Txs :
            LET universe == all_involved_wallets(receipt_and_traces, wallets)
                filtered == balance_changes_all[i].filtered
                full     == balance_changes_all[i].full
            IN  /\ DOMAIN filtered \subseteq universe
                /\ DOMAIN filtered = (DOMAIN full) \cap universe
                /\ \A a \in DOMAIN filtered : filtered[a] = full[a]

\* the sheet has at least 3 accounts, all its entries are of one token and
\* exactly one entry is negative
AirdropShape(full) ==
    /\ Cardinality(DOMAIN full) >= 3
    /\ Cardinality({e[2] : e \in SheetEntries(full)}) = 1
    /\ Cardinality({e \in SheetEntries(full) : full[e[1]][e[2]] >= HighBit}) = 1

\* transaction i matches the airdrop pattern
IsAirdrop(i) == AirdropShape(FullSheet(i))

\* the wallet has no involved transaction in the block: no transaction
\* outside the airdrop pattern changes a balance of its involved set
NothingInvolved(n) ==
    \A i \in Txs : (DOMAIN FullSheet(i)) \cap InvolvedSet(n) = {} \/ IsAirdrop(i)

\* the builder reward of wallet n
RewardOf(n) ==
    IF WalletIsBuilder(n) THEN PriorityFees(Len(receipt_and_traces)) ELSE 0

\* C20 (Absent wallet): process_block returns None for a wallet exactly when
\* the wallet has no involved transaction and its builder reward is zero; a
\* builder with a reward and no involved transaction gets a report with empty
\* txs and pnl = builder_reward, and a builder without reward and without
\* involved transaction gets None whatever the validator bribe would be.
C20_AbsentWallet ==
    Done =>
        \A n \in Wallets :
            /\ ~reports.reports[n].some <=> (NothingInvolved(n) /\ RewardOf(n) = 0)
            /\ (NothingInvolved(n) /\ RewardOf(n) # 0) =>
                  /\ reports.reports[n].txs = <<>>
                  /\ reports.reports[n].pnl = RewardOf(n)
                  /\ reports.reports[n].builder_reward = RewardOf(n)

\* a builder without reward and without involved transaction got None in a
\* block whose last transaction has a positive native delta
C20_Witness ==
    /\ Done
    /\ receipt_and_traces # <<>>
    /\ \E n \in Wallets :
         /\ WalletIsBuilder(n)
         /\ NothingInvolved(n)
         /\ RewardOf(n) = 0
         /\ ~reports.reports[n].some
         /\ PositiveNative(FullSheet(Len(receipt_and_traces))) # {}

\* C25 (Unsupported chain): on a chain without a known wrapped-native token
\* generate_pnl fails for every successful transaction, with or without a
\* filter; process_block fails, with no report for any wallet, if and only
\* if the block holds a successful transaction; a block of failed
\* transactions only, or without transactions, is processed without error.
C25_UnsupportedChain ==
    (pc = "done" /\ chain = "unknown") =>
        /\ \A i \in Txs :
             receipt_and_traces[i].receipt.status =>
                 /\ ~generate_pnl(chain, receipt_and_traces[i].receipt,
                                  receipt_and_traces[i].trace, NoFilter).ok
                 /\ ~generate_pnl(chain, receipt_and_traces[i].receipt,
                                  receipt_and_traces[i].trace, Only({A})).ok
        /\ ~reports.ok <=> \E i \in Txs : receipt_and_traces[i].receipt.status
        /\ ~reports.ok => reports.reports = <<>>
        /\ reports.ok => Len(reports.reports) = Len(wallets)

\* a block on an unsupported chain with a failed transaction and, after it,
\* a successful one, for which process_block failed
C25_Witness ==
    /\ pc = "done"
    /\ chain = "unknown"
    /\ ~reports.ok
    /\ Len(receipt_and_traces) = 2
    /\ ~receipt_and_traces[1].receipt.status
    /\ receipt_and_traces[2].receipt.status

---------------------------------------------------------------------------
(* SpecInvolved: process_block on blocks whose transactions are sent by,   *)
(* forwarded by, or merely seen by the tracked wallets, on mainnet, on an  *)
(* Optimism chain and on Arbitrum.                                         *)

\* the primary address again as builder and among the other addresses,
\* B twice among the others
WalletDup == Wallet(A, A, <<A, B, B>>, TRUE)

\* (chain, header.miner, wallets); header.base_fee_per_gas is 1
InvolvedEnvs ==
    { <<"mainnet", C, <<WalletARecipient>> >>,
      <<"mainnet", C, <<WalletBuilder, WalletA>> >>,
      <<"mainnet", C, <<WalletDup>> >>,
      <<"optimism", C, <<WalletA, WalletD>> >>,
      <<"arbitrum", C, <<WalletA>> >> }

\* a transaction whose receipt carries the given l1Fee
WithL1Fee(tx, l1Fee) == [tx EXCEPT !.receipt.l1Fee = l1Fee]

InvolvedTxChoices ==
    { \* A sends native value to B, l1Fee "0x1"
      WithL1Fee(Tx(TRUE, 1, 1, Frame("CALL", A, B, 1), <<>>, <<>>),
                L1Str(<<"0", "x", "1">>)),
      \* A sends native value to B, l1Fee "zz"
      WithL1Fee(Tx(TRUE, 2, 1, Frame("CALL", A, B, 2), <<>>, <<>>),
                L1Str(<<"z", "z">>)),
      \* A calls B without value, and B receives token X from C, l1Fee "zz"
      WithL1Fee(Tx(TRUE, 1, 1, Frame("CALL", A, B, 0),
                   <<TransferLog(TokenX, C, B, 1)>>, <<>>),
                L1Str(<<"z", "z">>)),
      \* A sends token X to B, C and D, l1Fee a number
      WithL1Fee(Tx(TRUE, 1, 1, Frame("CALL", A, TokenX, 0),
                   <<TransferLog(TokenX, A, B, 1), TransferLog(TokenX, A, C, 1),
                     TransferLog(TokenX, A, D, 1)>>, <<>>),
                L1Number),
      \* C sends token X to A, l1Fee "zz"
      WithL1Fee(Tx(TRUE, 1, 2, Frame("CALL", C, TokenX, 0),
                   <<TransferLog(TokenX, C, A, 1)>>, <<>>),
                L1Str(<<"z", "z">>)),
      \* a failed send of A, the top call reverted, l1Fee "zz"
      WithL1Fee(Tx(FALSE, 1, 2, [Frame("CALL", A, B, 1) EXCEPT !.error = TRUE],
                   <<>>, <<>>),
                L1Str(<<"z", "z">>)),
      \* D sends native value to A, no l1Fee
      Tx(TRUE, 1, 1, Frame("CALL", D, A, 1), <<>>, <<>>) }

InitInvolved ==
    /\ pc = "build"
    /\ ExtIdle
    /\ \E env \in InvolvedEnvs :
         /\ chain = env[1]
         /\ header = [miner |-> env[2], base_fee_per_gas |-> 1]
         /\ wallets = env[3]
    /\ receipt_and_traces = <<>>
    /\ reports = [ok |-> FALSE, reports |-> <<>>]
    /\ balance_changes_all = <<>>
    /\ receipt = NoReceipt
    /\ call_trace = <<>>
    /\ only_addresses = NoFilter
    /\ bcs = EmptyWalk
    /\ bcs_only = EmptyWalk
    /\ full_bcs = EmptyMap
    /\ first_entry = <<>>
    /\ airdrop = FALSE

NextInvolved ==
    \/ \E tx \in InvolvedTxChoices, index \in 0..(MaxTxs - 1) : PushTx(tx, index)
    \/ RunProcessBlock

SpecInvolved == InitInvolved /\ [][NextInvolved]_vars

---------------------------------------------------------------------------
(* Properties of process_block (SpecInvolved)                              *)

\* C21 (Report membership): a transaction is listed in a wallet's report.txs
\* if and only if its normalized sheet has an entry for an address of the
\* wallet's involved set and the full sheet is no shitcoin airdrop; every
\* listed transaction has receipt.status = true; and a transaction that
\* changes the forwarded recipient's balance but no involved address is not
\* listed.
C21_ReportMembership ==
    Done =>
        \A n \in Wallets, i \in Txs :
            /\ Listed(n, i) <=>
                   /\ InvolvedSet(n) \cap DOMAIN FullSheet(i) # {}
                   /\ ~IsAirdrop(i)
            /\ Listed(n, i) => receipt_and_traces[i].receipt.status
            /\ ( /\ wallets[n].include_recipient
                 /\ receipt_and_traces[i].receipt.from = wallets[n].address
                 /\ receipt_and_traces[i].receipt.to \in DOMAIN FullSheet(i)
                 /\ InvolvedSet(n) \cap DOMAIN FullSheet(i) = {} )
               => ~Listed(n, i)

\* a wallet that includes its recipient sent a transaction that changed the
\* recipient's balance only, which is not listed, and another one that is
C21_Witness ==
    /\ Done
    /\ \E n \in Wallets, i \in Txs, j \in Txs :
         /\ wallets[n].include_recipient
         /\ receipt_and_traces[i].receipt.from = wallets[n].address
         /\ receipt_and_traces[i].receipt.to \in DOMAIN FullSheet(i)
         /\ InvolvedSet(n) \cap DOMAIN FullSheet(i) = {}
         /\ ~Listed(n, i)
         /\ Listed(n, j)

\* the transaction is listed for the wallet and sent from its involved set
Charged(n, i) ==
    /\ Listed(n, i)
    /\ receipt_and_traces[i].receipt.from \in InvolvedSet(n)

\* gas_used * effective_gas_price, plus the l1Fee on an Optimism chain
TxFee(i) ==
    Add(GasFee(i), extra_cost(chain, receipt_and_traces[i].receipt).value)

\* the sum of TxFee over a set of transactions
RECURSIVE FeeSum(_)
FeeSum(S) ==
    IF S = {} THEN 0
    ELSE LET i == CHOOSE x \in S : TRUE
         IN  Add(TxFee(i), FeeSum(S \ {i}))

\* the merged deltas of wallet n over a set of transactions
RECURSIVE MergedChanges(_, _)
MergedChanges(n, S) ==
    IF S = {} THEN EmptyMap
    ELSE LET i == CHOOSE x \in S : TRUE
         IN  extend(MergedChanges(n, S \ {i}),
                    merge_accounts(balance_changes_all[i].filtered,
                                   involved_wallets(wallets[n]),
                                   Recipient(receipt_and_traces[i].receipt, wallets[n])))

\* native plus wrapped-native change of wallet n over its listed transactions
EtherChange(n) ==
    extract_ether(BalanceChange_retain_non_zero(
                      MergedChanges(n, {i \in Txs : Listed(n, i)})), chain).ether

\* C22 (Fee attribution): a reported wallet's pnl is its ether change minus
\* the fees of exactly the transactions that are listed for it and sent from
\* its involved set, each once, plus its builder reward; a transaction that
\* failed, that changed no involved balance, that is classified as an
\* airdrop, or that another account sent, adds nothing to the fees.
C22_FeeAttribution ==
    Done =>
        \A n \in Wallets :
            reports.reports[n].some =>
                /\ reports.reports[n].pnl =
                       Add(Sub(EtherChange(n), FeeSum({i \in Txs : Charged(n, i)})),
                           reports.reports[n].builder_reward)
                /\ \A i \in Txs :
                       ( \/ ~receipt_and_traces[i].receipt.status
                         \/ InvolvedSet(n) \cap DOMAIN FullSheet(i) = {}
                         \/ IsAirdrop(i)
                         \/ receipt_and_traces[i].receipt.from \notin InvolvedSet(n) )
                       => ~Charged(n, i)

\* a wallet is charged for one transaction it sent, while a failed
\* transaction it sent and a transaction it received from another account
\* cost it nothing
C22_Witness ==
    /\ Done
    /\ \E n \in Wallets, i \in Txs, j \in Txs :
         /\ reports.reports[n].some
         /\ Charged(n, i) /\ TxFee(i) > 0
         /\ ~Charged(n, j) /\ GasFee(j) > 0
         /\ \/ /\ receipt_and_traces[j].receipt.from = wallets[n].address
               /\ ~receipt_and_traces[j].receipt.status
            \/ /\ Listed(n, j)
               /\ receipt_and_traces[j].receipt.from \notin InvolvedSet(n)

\* transaction i is one whose fee wallet n is charged: it changes an
\* involved balance, is no airdrop, and was sent from the involved set
WouldCharge(n, i) ==
    /\ InvolvedSet(n) \cap DOMAIN FullSheet(i) # {}
    /\ ~IsAirdrop(i)
    /\ receipt_and_traces[i].receipt.from \in InvolvedSet(n)

HexChars == {"0", "1", "2", "3", "4", "5", "6", "7", "8", "9",
             "a", "b", "c", "d", "e", "f", "A", "B", "C", "D", "E", "F"}

\* a hex string with optional 0x prefix
IsHexString(str) ==
    LET body == IF Len(str) >= 2 /\ str[1] = "0" /\ str[2] = "x"
                THEN SubSeq(str, 3, Len(str)) ELSE str
    IN  /\ body # <<>>
        /\ \A n \in 1..Len(body) : body[n] \in HexChars

\* the receipt has no l1Fee field, or one that is no hex string
MissingOrNotHex(i) ==
    LET l1Fee == receipt_and_traces[i].receipt.l1Fee
    IN  ~l1Fee.present \/ ~l1Fee.is_str \/ ~IsHexString(l1Fee.str)

\* C27 (Optimism l1Fee): on an Optimism-family chain process_block fails
\* exactly when some wallet is charged for a transaction whose receipt has no
\* l1Fee field or an l1Fee that is no hex string; a missing or malformed
\* l1Fee on any other transaction causes no error; on every other chain
\* l1Fee is not read and the block is processed.
C27_L1FeeRequired ==
    pc = "done" =>
        /\ is_optimism(chain) =>
              (~reports.ok <=>
                   \E n \in Wallets, i \in Txs : WouldCharge(n, i) /\ MissingOrNotHex(i))
        /\ ~is_optimism(chain) => reports.ok

---------------------------------------------------------------------------
(* SpecAirdrop: is_shitcoin_airdrop on an arbitrary normalized sheet, for  *)
(* every entry the iteration of the hash maps may start at.                *)

SheetAccounts == 1..NumSheetAccounts

\* the TokenDeltas over TokenX and TokenY with deltas +1 and -1
DeltaChoices ==
    { BalanceChange_retain_non_zero([t \in {TokenX, TokenY} |->
                                        IF t = TokenX THEN vx ELSE vy]) :
        vx \in {0, 1, Modulus - 1}, vy \in {0, 1, Modulus - 1} }

InitAirdrop ==
    /\ pc = "build"
    /\ ExtIdle
    /\ \E f \in [SheetAccounts -> DeltaChoices] :
         full_bcs = [a \in {x \in SheetAccounts : f[x] # EmptyMap} |-> f[a]]
    /\ first_entry = <<>>
    /\ airdrop = FALSE
    /\ chain = "mainnet"
    /\ header = <<>>
    /\ receipt_and_traces = <<>>
    /\ wallets = <<>>
    /\ reports = <<>>
    /\ balance_changes_all = <<>>
    /\ receipt = NoReceipt
    /\ call_trace = <<>>
    /\ only_addresses = NoFilter
    /\ bcs = EmptyWalk
    /\ bcs_only = EmptyWalk

\* is_shitcoin_airdrop(&full_bcs), the iteration starting at entry first
Classify(first) ==
    /\ pc = "build"
    /\ pc' = "done"
    /\ first_entry' = first
    /\ airdrop' = is_shitcoin_airdrop_from(full_bcs, first)
    /\ UNCHANGED <<full_bcs, chain, header, receipt_and_traces, wallets, reports,
                   balance_changes_all, receipt, call_trace, only_addresses,
                   bcs, bcs_only>>
    /\ UNCHANGED ExtVars

NextAirdrop ==
    \E first \in IF SheetEntries(full_bcs) = {} THEN {<<>>} ELSE SheetEntries(full_bcs) :
        Classify(first)

SpecAirdrop == InitAirdrop /\ [][NextAirdrop]_vars

\* C10 (Airdrop classification): on every normalized sheet
\* is_shitcoin_airdrop is true exactly when the sheet has at least 3
\* accounts, all entries are of one token and exactly one entry is negative,
\* whichever entry the iteration of the maps yields first.
C10_AirdropClassification ==
    pc = "done" =>
        /\ airdrop = AirdropShape(full_bcs)
        /\ is_shitcoin_airdrop(full_bcs) = AirdropShape(full_bcs)

\* a sheet of four accounts classified as an airdrop
C10_Witness ==
    /\ pc = "done"
    /\ airdrop
    /\ Cardinality(DOMAIN full_bcs) = 4

---------------------------------------------------------------------------
(* SpecFee: calculate_tx_fee on two receipts of one chain that differ in    *)
(* gas_used or in effective_gas_price only.                                 *)

\* the sheets and results of generate_pnl, process_block and
\* is_shitcoin_airdrop, which the other specifications leave alone
SheetVars == <<balance_changes_all, call_trace, only_addresses, bcs, bcs_only,
               full_bcs, first_entry, airdrop>>

SheetIdle ==
    /\ balance_changes_all = <<>>
    /\ call_trace = <<>>
    /\ only_addresses = NoFilter
    /\ bcs = EmptyWalk
    /\ bcs_only = EmptyWalk
    /\ full_bcs = EmptyMap
    /\ first_entry = <<>>
    /\ airdrop = FALSE

CoreVars == <<header, receipt_and_traces, wallets, reports, SheetVars>>

CoreIdle ==
    /\ header = <<>>
    /\ receipt_and_traces = <<>>
    /\ wallets = <<>>
    /\ reports = <<>>
    /\ SheetIdle

\* receipt.other["l1Fee"]: absent, or a hex string
L1FeeChoices == { L1Absent, L1Str(<<"0", "x", "0">>), L1Str(<<"0", "x", "1">>) }

FeeReceipt(gas_used, effective_gas_price, l1Fee) ==
    [transaction_index |-> 0, transaction_hash |-> 1, from |-> A, to |-> B,
     status |-> TRUE, gas_used |-> gas_used,
     effective_gas_price |-> effective_gas_price, l1Fee |-> l1Fee]

InitFee ==
    /\ pc = "build"
    /\ CoreIdle
    /\ chain \in Chains
    /\ \E g \in U128, p \in U128, l \in L1FeeChoices : receipt = FeeReceipt(g, p, l)
    /\ receipt_more = <<>>
    /\ fees = <<>>
    /\ LiveIdle
    /\ StartIdle
    /\ BacktestIdle

\* calculate_tx_fee(chain, receipt) and calculate_tx_fee(chain, receipt_more)
CompareFees(more) ==
    /\ pc' = "done"
    /\ receipt_more' = more
    /\ fees' = <<calculate_tx_fee(chain, receipt), calculate_tx_fee(chain, more)>>
    /\ UNCHANGED <<chain, receipt>>
    /\ UNCHANGED <<CoreVars, LiveVars, StartVars, BacktestVars>>

\* the second receipt has a larger gas_used
MoreGas(g) ==
    /\ pc = "build"
    /\ g > receipt.gas_used
    /\ CompareFees([receipt EXCEPT !.gas_used = g])

\* the second receipt has a larger effective_gas_price
MorePrice(p) ==
    /\ pc = "build"
    /\ p > receipt.effective_gas_price
    /\ CompareFees([receipt EXCEPT !.effective_gas_price = p])

NextFee ==
    \/ \E g \in U128 : MoreGas(g)
    \/ \E p \in U128 : MorePrice(p)

SpecFee == InitFee /\ [][NextFee]_vars

---------------------------------------------------------------------------
(* Properties of calculate_tx_fee (SpecFee)                                *)

FeesCompared == pc = "done" /\ fees # <<>> /\ ~is_optimism(chain)

\* the field the two receipts share: the price when gas_used was raised,
\* gas_used when the price was raised
SharedFactor ==
    IF receipt_more.gas_used > receipt.gas_used
    THEN receipt.effective_gas_price
    ELSE receipt.gas_used

\* C12 as stated (Fee monotonicity): on a non-Optimism chain the receipt with
\* the larger gas_used (or the larger effective_gas_price) always gets a
\* strictly larger fee.
C12_FeeStrictlyMonotone ==
    FeesCompared =>
        /\ fees[1].ok /\ fees[2].ok
        /\ Signed(fees[2].fee) > Signed(fees[1].fee)

\* C12 (Fee monotonicity, amended): on a non-Optimism chain calculate_tx_fee
\* succeeds; when the field the two receipts share is zero both fees are
\* zero; otherwise, as long as the larger product does not reach the sign bit
\* of I256, the receipt with the larger value gets a strictly larger fee.
C12_FeeMonotoneNonZero ==
    FeesCompared =>
        /\ fees[1].ok /\ fees[2].ok
        /\ SharedFactor = 0 => fees[1].fee = 0 /\ fees[2].fee = 0
        /\ (SharedFactor # 0 /\ ~is_negative(fees[2].fee)) =>
              Signed(fees[2].fee) > Signed(fees[1].fee)

\* two receipts with positive gas_used and price, one field raised, and a
\* strictly larger fee for the raised one
C12_Witness ==
    /\ FeesCompared
    /\ SharedFactor # 0
    /\ receipt.gas_used # 0 /\ receipt.effective_gas_price # 0
    /\ ~is_negative(fees[2].fee)
    /\ Signed(fees[2].fee) > Signed(fees[1].fee)

---------------------------------------------------------------------------
(* SpecSheet: a BalanceChanges sheet is built by append_transfer calls and *)
(* then pruned by retain_non_zero.                                         *)

\* (token, from, to, value) of the calls
TransferChoices ==
    { <<TokenX, A, B, 1>>, <<TokenX, B, A, 1>>, <<TokenX, A, A, 1>>,
      <<TokenX, Zero, A, 0>>, <<TokenX, Zero, Zero, 1>>,
      <<NATIVE_TOKEN, A, Zero, 1>>, <<NATIVE_TOKEN, Zero, A, 1>>,
      <<NATIVE_TOKEN, B, B, HighBit>> }

InitSheet ==
    /\ pc = "append"
    /\ chain = "mainnet"
    /\ receipt = NoReceipt
    /\ CoreIdle
    /\ ExtIdle

SheetOther == <<chain, receipt, header, receipt_and_traces, wallets, reports,
                balance_changes_all, call_trace, only_addresses, bcs_only,
                full_bcs, first_entry, airdrop, ExtVars>>

\* bcs.append_transfer(token, from, to, value)
AppendTransfer(t) ==
    /\ pc = "append"
    /\ Len(bcs.applied) < MaxItems
    /\ bcs' = Apply(bcs, t[1], t[2], t[3], t[4])
    /\ UNCHANGED pc
    /\ UNCHANGED SheetOther

\* bcs.retain_non_zero()
RetainNonZero ==
    /\ pc \in {"append", "pruned"}
    /\ pc' = "pruned"
    /\ bcs' = [bcs EXCEPT !.bcs = retain_non_zero(bcs.bcs)]
    /\ UNCHANGED SheetOther

NextSheet ==
    \/ \E t \in TransferChoices : AppendTransfer(t)
    \/ RetainNonZero

SpecSheet == InitSheet /\ [][NextSheet]_vars

---------------------------------------------------------------------------
(* Properties of BalanceChanges (SpecSheet)                                *)

\* the applied transfers of token t that name account a
Touching(a, t) ==
    SelectSeq(bcs.applied, LAMBDA x : x.token = t /\ (x.from = a \/ x.to = a))

\* C26 (Sheet normal form): the zero address is never an account key of a
\* sheet built by append_transfer; after retain_non_zero no entry has delta
\* zero and no account maps to an empty TokenDelta; an account that took part
\* in transfers of a token only as sender and receiver at once has no entry
\* for that token.
C26_SheetNormalForm ==
    /\ Zero \notin DOMAIN bcs.bcs
    /\ pc = "pruned" =>
         /\ \A a \in DOMAIN bcs.bcs :
              /\ DOMAIN bcs.bcs[a] # {}
              /\ \A t \in DOMAIN bcs.bcs[a] : bcs.bcs[a][t] # 0
         /\ \A a \in {A, B}, t \in {NATIVE_TOKEN, TokenX} :
              (\A n \in 1..Len(Touching(a, t)) :
                   Touching(a, t)[n].from = Touching(a, t)[n].to)
              => ~(a \in DOMAIN bcs.bcs /\ t \in DOMAIN bcs.bcs[a])

\* a pruned sheet that keeps an account although one of its tokens fell to
\* zero, after a transfer from an account to itself and one from the zero
\* address
C26_Witness ==
    /\ pc = "pruned"
    /\ \E a \in DOMAIN bcs.bcs :
         /\ \E n \in 1..Len(bcs.applied) :
              /\ bcs.applied[n].from = a /\ bcs.applied[n].to = a
              /\ bcs.applied[n].token \notin DOMAIN bcs.bcs[a]
         /\ \E n \in 1..Len(bcs.applied) :
              bcs.applied[n].from = Zero /\ bcs.applied[n].to = a

---------------------------------------------------------------------------
(* SpecLive: the live pipeline of one chain.  Block events arrive from the  *)
(* collector and wait in the engine's channel; process_event handles an     *)
(* event and hands the next one over when it has returned.  A handling is   *)
(* [block, pc, rts, reports, todo, tokens, lines, token_info_before]: pc is *)
(* where it is suspended, todo the wallets whose report is still to be      *)
(* sent, tokens the rest of the iteration over report.token_changes and     *)
(* lines the token lines of the message written so far.  fetched[b] is what *)
(* the RPC answered for block b.  A token the model caches stands for any   *)
(* token but the one MessageGenerator::new caches beforehand.               *)

\* blocks that arrive on the chain
MaxBlocks == 2

LiveWallets == <<WalletA, WalletD>>

\* the receipts and traces of a block as the RPC returns them, in block order
LiveBlock(txs) ==
    [i \in 1..Len(txs) |->
        [txs[i] EXCEPT !.receipt.transaction_index = i - 1,
                       !.receipt.transaction_hash = i]]

LiveBlocks ==
    { \* an empty block
      LiveBlock(<<>>),
      \* A sends native value to B
      LiveBlock(<<Tx(TRUE, 1, 1, Frame("CALL", A, B, 1), <<>>, <<>>)>>),
      \* A sends token X to D
      LiveBlock(<<Tx(TRUE, 1, 1, Frame("CALL", A, TokenX, 0),
                     <<TransferLog(TokenX, A, D, 1)>>, <<>>)>>),
      \* A sends token X to D, then B sends token Y to A
      LiveBlock(<<Tx(TRUE, 1, 1, Frame("CALL", A, TokenX, 0),
                     <<TransferLog(TokenX, A, D, 1)>>, <<>>),
                  Tx(TRUE, 1, 1, Frame("CALL", B, TokenY, 0),
                     <<TransferLog(TokenY, B, A, 2)>>, <<>>)>>),
      \* A sends native value to B, then a log without an address
      LiveBlock(<<Tx(TRUE, 1, 1, Frame("CALL", A, B, 1), <<>>, <<>>),
                  Tx(TRUE, 1, 1, Frame("CALL", B, D, 0),
                     <<TransferLog(NoAddr, B, D, 1)>>, <<>>)>>) }

\* the orders in which a HashMap may yield the keys S
Orders(S) ==
    { f \in [1..Cardinality(S) -> S] : \A i, j \in 1..Cardinality(S) : f[i] = f[j] => i = j }

RemoveAt(seq, h) == SubSeq(seq, 1, h - 1) \o SubSeq(seq, h + 1, Len(seq))

\* reports.into_iter().enumerate().filter_map(|(i, r)| r.map(|r| (i, r)))
report_and_wallet_index(rs) ==
    SelectSeq([n \in 1..Len(rs) |-> n], LAMBDA n : rs[n].some)

InitLive ==
    /\ pc = "live"
    /\ chain = "mainnet"
    /\ header = [miner |-> C, base_fee_per_gas |-> 1]
    /\ wallets = LiveWallets
    /\ receipt_and_traces = <<>>
    /\ reports = <<>>
    /\ receipt = NoReceipt
    /\ SheetIdle
    /\ FeeIdle
    /\ LiveIdle
    /\ StartIdle
    /\ BacktestIdle

LiveOther == <<pc, chain, header, wallets, receipt_and_traces, reports, receipt,
               SheetVars, FeeVars, StartVars, BacktestVars>>

\* the collector yields the next block of the chain
Arrive ==
    /\ arrived < MaxBlocks
    /\ arrived' = arrived + 1
    /\ events' = Append(events, arrived + 1)
    /\ UNCHANGED <<handlers, fetched, token_info, submitted, logged>>
    /\ UNCHANGED LiveOther

process_event_detached(hs) == TRUE

\* process_event takes &mut self and awaits process_block: the strategy
\* takes the next event when the handling of the one before has returned
process_event_returned(hs) == hs = <<>>

\* process_event is called with the oldest event waiting; process_block
\* sends the batch request
Deliver ==
    /\ events # <<>>
    /\ process_event_returned(handlers)
    /\ events' = Tail(events)
    /\ handlers' = Append(handlers,
          [block |-> Head(events), pc |-> "fetch", rts |-> <<>>, reports |-> <<>>,
           todo |-> <<>>, tokens |-> <<>>, lines |-> <<>>,
           token_info_before |-> token_info])
    /\ UNCHANGED <<arrived, fetched, token_info, submitted, logged>>
    /\ UNCHANGED LiveOther

Return_or_abort(h, level, context) ==
    /\ logged' = Append(logged,
          [block |-> handlers[h].block, level |-> level, context |-> context,
           token_info_before |-> handlers[h].token_info_before,
           token_info_after |-> token_info])
    /\ handlers' = IF level = "error"
                   THEN [handlers EXCEPT ![h].pc = "aborted"]
                   ELSE RemoveAt(handlers, h)

\* process_block returns to process_event, which logs the result
Return(h, level, context) ==
    /\ logged' = Append(logged,
          [block |-> handlers[h].block, level |-> level, context |-> context,
           token_info_before |-> handlers[h].token_info_before,
           token_info_after |-> token_info])
    /\ handlers' = RemoveAt(handlers, h)

\* get_receipt_and_trace fails
FetchFails(h) ==
    /\ handlers[h].pc = "fetch"
    /\ fetched' = Put(fetched, handlers[h].block, [failed |-> TRUE, rts |-> <<>>])
    /\ Return(h, "error", "Failed to get receipt and traces")
    /\ UNCHANGED <<events, arrived, token_info, submitted>>
    /\ UNCHANGED LiveOther

\* get_receipt_and_trace returns rts; processor::process_block runs on it
Fetch(h, rts) ==
    /\ handlers[h].pc = "fetch"
    /\ fetched' = Put(fetched, handlers[h].block, [failed |-> FALSE, rts |-> rts])
    /\ \E r \in {process_block(chain, header, rts, wallets)} :
         IF ~r.ok
         THEN Return(h, "error", "Failed to generate balance changes")
         ELSE /\ handlers' = [handlers EXCEPT ![h] =
                    [@ EXCEPT !.pc = "loop", !.rts = rts, !.reports = r.reports,
                              !.todo = report_and_wallet_index(r.reports)]]
              /\ UNCHANGED logged
    /\ UNCHANGED <<events, arrived, token_info, submitted>>
    /\ UNCHANGED LiveOther

\* the report the handling is sending
CurrentReport(hd) == hd.reports[Head(hd.todo)]

\* for (wallet_index, report) in report_and_wallet_index: Ok(()) at the end
\* of the list, else generate starts and iterates over report.token_changes
NextWallet(h) ==
    /\ handlers[h].pc = "loop"
    /\ IF handlers[h].todo = <<>>
       THEN Return(h, "info", "Processed block")
       ELSE /\ \E order \in Orders(DOMAIN CurrentReport(handlers[h]).token_changes) :
                 handlers' = [handlers EXCEPT ![h] =
                    [@ EXCEPT !.pc = "generate", !.tokens = order, !.lines = <<>>]]
            /\ UNCHANGED logged
    /\ UNCHANGED <<events, arrived, fetched, token_info, submitted>>
    /\ UNCHANGED LiveOther

\* load_symbol_and_decimal(token) and the token's line: a cached token needs
\* no call; else the calls succeed and the answer is cached, or one fails
\* and the line names the token by its address
LoadSymbol(h, rpc_ok) ==
    /\ handlers[h].pc = "generate"
    /\ handlers[h].tokens # <<>>
    /\ LET token == Head(handlers[h].tokens)
           named == token \in token_info \/ rpc_ok
       IN  /\ token_info' = IF named THEN token_info \cup {token} ELSE token_info
           /\ handlers' = [handlers EXCEPT ![h] =
                 [@ EXCEPT !.tokens = Tail(@),
                           !.lines = Append(@, [token |-> token, named |-> named,
                                amount |-> CurrentReport(handlers[h]).token_changes[token]])]]
    /\ UNCHANGED <<events, arrived, fetched, submitted, logged>>
    /\ UNCHANGED LiveOther

\* the message generate returns
Message(hd) ==
    [builder_tag |-> CurrentReport(hd).builder_reward # 0,
     pnl |-> CurrentReport(hd).pnl,
     tokens |-> hd.lines,
     validator_bribe |-> CurrentReport(hd).validator_bribe,
     txs |-> CurrentReport(hd).txs]

\* the rest of generate, then submitter.submit: the lines of the
\* transactions need receipt_and_traces.get(index) of each
Submit(h) ==
    /\ handlers[h].pc = "generate"
    /\ handlers[h].tokens = <<>>
    /\ IF \E q \in 1..Len(CurrentReport(handlers[h]).txs) :
             CurrentReport(handlers[h]).txs[q].index >= Len(handlers[h].rts)
       THEN /\ Return(h, "error", "Failed to find receipt and trace")
            /\ UNCHANGED submitted
       ELSE /\ submitted' = Append(submitted,
                  [block |-> handlers[h].block, wallet |-> Head(handlers[h].todo),
                   message |-> Message(handlers[h])])
            /\ handlers' = [handlers EXCEPT ![h] =
                  [@ EXCEPT !.pc = "loop", !.todo = Tail(@)]]
            /\ UNCHANGED logged
    /\ UNCHANGED <<events, arrived, fetched, token_info>>
    /\ UNCHANGED LiveOther

NextLive ==
    \/ Arrive
    \/ Deliver
    \/ \E h \in 1..Len(handlers) : FetchFails(h)
    \/ \E h \in 1..Len(handlers), rts \in LiveBlocks : Fetch(h, rts)
    \/ \E h \in 1..Len(handlers) : NextWallet(h)
    \/ \E h \in 1..Len(handlers), rpc_ok \in BOOLEAN : LoadSymbol(h, rpc_ok)
    \/ \E h \in 1..Len(handlers) : Submit(h)

SpecLive == InitLive /\ [][NextLive]_vars

\* the engine and the handler keep running: every step that can be taken is
\* taken in the end
SpecLiveFair == SpecLive /\ WF_vars(NextLive)

---------------------------------------------------------------------------
(* Properties of the live pipeline (SpecLive, SpecLiveFair)                 *)

\* the entries of the log about block b
LoggedAs(b) == { logged[i] : i \in { j \in 1..Len(logged) : logged[j].block = b } }

\* the alerts submitted for block b
AlertsOf(b) == { i \in 1..Len(submitted) : submitted[i].block = b }

\* fetching the receipts and traces of block b failed, or computing the PnL
\* of what was fetched fails
FailedBlock(b) ==
    /\ b \in DOMAIN fetched
    /\ \/ fetched[b].failed
       \/ ~process_block(chain, header, fetched[b].rts, wallets).ok

\* what a failed block leaves behind once its handling has returned
Contained(b) ==
    /\ AlertsOf(b) = {}
    /\ \A e \in LoggedAs(b) :
         /\ e.level = "error"
         /\ e.context \in {"Failed to get receipt and traces",
                           "Failed to generate balance changes"}
         /\ e.token_info_after = e.token_info_before
    /\ LoggedAs(b) # {} => \A h \in 1..Len(handlers) : handlers[h].block # b

\* C14 (Per-block error containment): a block whose fetch or PnL computation
\* fails gets no alert; process_event logs the error and returns, leaving the
\* token cache (the only state a handling passes on to later ones) as it
\* found it; and every block event that arrives, before or after a failed
\* one, is handled to its end.
C14_ErrorContainment ==
    /\ [](\A b \in 1..MaxBlocks : FailedBlock(b) => Contained(b))
    /\ \A b \in 1..MaxBlocks : (arrived >= b) ~> (LoggedAs(b) # {})

\* a failed block was logged, and the block that arrived after it was
\* processed and got its alerts
C14_Witness ==
    /\ \E b \in 1..MaxBlocks :
         /\ FailedBlock(b)
         /\ LoggedAs(b) # {}
         /\ AlertsOf(b + 1) # {}
         /\ \E e \in LoggedAs(b + 1) : e.level = "info"

\* C15 (Per-chain ordering): block events are handled one at a time in
\* arrival order: while a block is being handled every earlier block has been
\* handled to its end, every alert belongs to it or to an earlier block, and
\* the events still waiting are later ones; so with increasing block numbers
\* the alerts are submitted in non-decreasing block number.
C15_PerChainOrdering ==
    /\ Len(handlers) <= 1
    /\ \A h \in 1..Len(handlers) :
         /\ \A b \in 1..(handlers[h].block - 1) : LoggedAs(b) # {}
         /\ LoggedAs(handlers[h].block) = {}
         /\ \A i \in 1..Len(submitted) : submitted[i].block <= handlers[h].block
         /\ handlers[h].pc = "fetch" => AlertsOf(handlers[h].block) = {}
         /\ \A q \in 1..Len(events) : events[q] > handlers[h].block
    /\ \A i, j \in 1..Len(submitted) :
         i < j => submitted[i].block <= submitted[j].block

\* a block got two alerts, one of them after two token lookups, and the
\* block that arrived next got its alerts after them
C15_Witness ==
    \E b \in 1..MaxBlocks :
        /\ Cardinality(AlertsOf(b)) >= 2
        /\ AlertsOf(b + 1) # {}
        /\ \E i \in AlertsOf(b) : Len(submitted[i].message.tokens) >= 2

\* C17 (Canonical token order in alerts): in every message that was
\* submitted the token lines are in ascending order of token address.
C17_TokenLinesSorted ==
    \A i \in 1..Len(submitted) :
        \A q, r \in 1..Len(submitted[i].message.tokens) :
            q < r => submitted[i].message.tokens[q].token
                       < submitted[i].message.tokens[r].token

---------------------------------------------------------------------------
(* SpecStart: the start command.  run spawns one task per configured chain  *)
(* (tasks[i] is "connecting", "monitoring" or "stopped"; "cancelled" when   *)
(* the process ended under it), then awaits the first of them; seen[i]      *)
(* counts the blocks chain i has processed.                                  *)

\* configured chains
MaxChains == 3

\* blocks a chain processes
MaxSeen == 2

InitStart ==
    /\ pc = "start"
    /\ chain = "mainnet"
    /\ receipt = NoReceipt
    /\ CoreIdle
    /\ FeeIdle
    /\ LiveIdle
    /\ BacktestIdle
    /\ configured \in 1..MaxChains
    /\ tasks = <<>>
    /\ main = "spawn"
    /\ alive = TRUE
    /\ seen = <<>>

StartOther == <<pc, chain, receipt, CoreVars, FeeVars, LiveVars, BacktestVars>>

\* the process ends: the runtime drops every task that has not finished
Cancelled(ts) ==
    [i \in 1..Len(ts) |-> IF ts[i] = "stopped" THEN "stopped" ELSE "cancelled"]

\* for (name, rpc) in config.chains: the provider is created and the task
\* of the chain is spawned; after the last chain run awaits the tasks
Spawn ==
    /\ alive /\ main = "spawn"
    /\ tasks' = Append(tasks, "connecting")
    /\ seen' = Append(seen, 0)
    /\ main' = IF Len(tasks) + 1 = configured THEN "await" ELSE "spawn"
    /\ UNCHANGED <<configured, alive>>
    /\ UNCHANGED StartOther

\* new_pubsub_provider fails: expect panics in run
ProviderFails ==
    /\ alive /\ main = "spawn"
    /\ alive' = FALSE
    /\ main' = "panicked"
    /\ tasks' = Cancelled(tasks)
    /\ UNCHANGED <<configured, seen>>
    /\ UNCHANGED StartOther

\* provider.get_chain_id() answers: the engine of the chain starts
StartMonitoring(i) ==
    /\ alive /\ tasks[i] = "connecting"
    /\ tasks' = [tasks EXCEPT ![i] = "monitoring"]
    /\ UNCHANGED <<configured, main, alive, seen>>
    /\ UNCHANGED StartOther

\* provider.get_chain_id() fails: std::process::exit(-1)
ChainIdFails(i) ==
    /\ alive /\ tasks[i] = "connecting"
    /\ alive' = FALSE
    /\ tasks' = Cancelled(tasks)
    /\ UNCHANGED <<configured, main, seen>>
    /\ UNCHANGED StartOther

\* the engine of chain i processes a block
Monitor(i) ==
    /\ alive /\ tasks[i] = "monitoring"
    /\ seen[i] < MaxSeen
    /\ seen' = [seen EXCEPT ![i] = @ + 1]
    /\ UNCHANGED <<configured, tasks, main, alive>>
    /\ UNCHANGED StartOther

\* engine.run_and_join() returns: "Engine stopped", the task ends
EngineStops(i) ==
    /\ alive /\ tasks[i] = "monitoring"
    /\ tasks' = [tasks EXCEPT ![i] = "stopped"]
    /\ UNCHANGED <<configured, main, alive, seen>>
    /\ UNCHANGED StartOther

\* for task in tasks { let _ = task.await; break; }: the tasks run waits for
awaited_tasks(ts) == {1}

\* the awaited tasks have ended: run returns, main returns and the process
\* ends
RunReturns ==
    /\ alive /\ main = "await"
    /\ \A i \in awaited_tasks(tasks) : tasks[i] = "stopped"
    /\ main' = "returned"
    /\ alive' = FALSE
    /\ tasks' = Cancelled(tasks)
    /\ UNCHANGED <<configured, seen>>
    /\ UNCHANGED StartOther

NextStart ==
    \/ Spawn
    \/ ProviderFails
    \/ \E i \in 1..Len(tasks) : StartMonitoring(i)
    \/ \E i \in 1..Len(tasks) : ChainIdFails(i)
    \/ \E i \in 1..Len(tasks) : Monitor(i)
    \/ \E i \in 1..Len(tasks) : EngineStops(i)
    \/ RunReturns

SpecStart == InitStart /\ [][NextStart]_vars

---------------------------------------------------------------------------
(* Properties of the start command (SpecStart)                              *)

\* C16 (Chain task isolation): the exit of one chain's task ends only that
\* chain's pipeline, whichever task exits first: run returns, and with it the
\* process ends, only when no configured chain's task is still running.
C16_ChainTaskIsolation ==
    main = "returned" => \A i \in 1..Len(tasks) : tasks[i] = "stopped"

---------------------------------------------------------------------------
(* SpecBacktest: backtest --generate.  A test case is [block, address,      *)
(* builder, other_addresses, include_recipient, report]; a spawner task     *)
(* starts one worker per case when the semaphore has a permit; a worker     *)
(* sends its RunResult [index, test_case, report] with report = [err,       *)
(* value] into the channel; run receives the results, and when the channel  *)
(* is closed and empty it sorts what it received and writes the file.       *)
(* workers[i] is "running", "sent" (result sent, permit held) or "done".     *)

\* test cases of the file
MaxCases == 3

\* permits of the semaphore (num_cpus * 2)
Permits == 2

TestCase(block, address) ==
    [block |-> block, address |-> address, builder |-> NoAddr,
     other_addresses |-> <<>>, include_recipient |-> FALSE, report |-> NoReport]

CaseChoices == { TestCase(1, A), TestCase(3, A) }

\* the receipts and traces the RPC holds for a block number
BlockAt(b) ==
    IF b = 1
    THEN LiveBlock(<<Tx(TRUE, 1, 1, Frame("CALL", A, TokenX, 0),
                        <<TransferLog(TokenX, A, D, 1)>>, <<>>)>>)
    ELSE IF b = 2
    THEN LiveBlock(<<Tx(TRUE, 1, 1, Frame("CALL", A, B, 1), <<>>, <<>>)>>)
    ELSE LiveBlock(<<Tx(TRUE, 1, 1, Frame("CALL", B, D, 0),
                        <<TransferLog(NoAddr, B, D, 1)>>, <<>>)>>)

\* worker(chain, provider, test_case): Err when an RPC call or process_block
\* fails, else the one report of process_block for the wallet of the case
worker(c, hdr, rpc_ok, test_case) ==
    IF ~rpc_ok THEN [err |-> TRUE, value |-> NoReport]
    ELSE LET r == process_block(c, hdr, BlockAt(test_case.block),
                     <<Wallet(test_case.address, test_case.builder,
                              test_case.other_addresses, test_case.include_recipient)>>)
         IN  IF ~r.ok \/ Len(r.reports) # 1
             THEN [err |-> TRUE, value |-> NoReport]
             ELSE [err |-> FALSE, value |-> r.reports[1]]

InitBacktest ==
    /\ pc = "receive"
    /\ chain = "mainnet"
    /\ header = [miner |-> C, base_fee_per_gas |-> 1]
    /\ wallets = <<>>
    /\ receipt_and_traces = <<>>
    /\ reports = <<>>
    /\ receipt = NoReceipt
    /\ SheetIdle
    /\ FeeIdle
    /\ LiveIdle
    /\ StartIdle
    /\ \E n \in 1..MaxCases : test_cases \in [1..n -> CaseChoices]
    /\ spawned = 0
    /\ permits = Permits
    /\ workers = <<>>
    /\ channel = <<>>
    /\ generated_test_case = <<>>
    /\ file = [written |-> FALSE, records |-> <<>>]
    /\ generate = TRUE
    /\ unmatched_cases = <<>>
    /\ failed_cases = <<>>
    /\ stdout = <<>>

BacktestOther == <<chain, header, wallets, receipt_and_traces, reports, receipt,
                   SheetVars, FeeVars, LiveVars, StartVars>>

\* what run has collected and printed
Collected == <<generated_test_case, unmatched_cases, failed_cases, stdout, file>>

acquire_owned_unbounded(p) == TRUE

\* semaphore.clone().acquire_owned().await returns when a permit is free
acquire_owned(p) == p > 0

\* the spawner acquires a permit and spawns the worker of the next case
SpawnWorker ==
    /\ spawned < Len(test_cases)
    /\ acquire_owned(permits)
    /\ permits' = permits - 1
    /\ spawned' = spawned + 1
    /\ workers' = Append(workers, "running")
    /\ UNCHANGED <<pc, test_cases, channel, generate>>
    /\ UNCHANGED Collected
    /\ UNCHANGED BacktestOther

\* worker i has its report: sender.send(result)
WorkerSend(i, rpc_ok) ==
    /\ workers[i] = "running"
    /\ workers' = [workers EXCEPT ![i] = "sent"]
    /\ channel' = Append(channel,
          [index |-> i - 1, test_case |-> test_cases[i],
           report |-> worker(chain, header, rpc_ok, test_cases[i])])
    /\ UNCHANGED <<pc, test_cases, spawned, permits, generate>>
    /\ UNCHANGED Collected
    /\ UNCHANGED BacktestOther

\* worker i ends: drop(permit), and its sender is dropped with the task
WorkerDone(i) ==
    /\ workers[i] = "sent"
    /\ workers' = [workers EXCEPT ![i] = "done"]
    /\ permits' = permits + 1
    /\ UNCHANGED <<pc, test_cases, spawned, channel, generate>>
    /\ UNCHANGED Collected
    /\ UNCHANGED BacktestOther

\* a line of the standard output
Line(kind, test_case) == [kind |-> kind, test_case |-> test_case]

\* the body of `while let Some(result) = receiver.recv().await`:
\* [failed_cases, generated_test_case, unmatched_cases, stdout] after it
ReceiveResult(result, failed, out) ==
    IF generate
    THEN [failed_cases |-> failed,
          generated_test_case |-> Append(generated_test_case,
             [index |-> result.index,
              test_case |-> [result.test_case EXCEPT !.report =
                                IF result.report.err THEN NoReport
                                ELSE result.report.value]]),
          unmatched_cases |-> unmatched_cases,
          stdout |-> IF result.report.err THEN out
                     ELSE Append(out, Line("Elapsed", result.test_case))]
    ELSE IF result.report.err
    THEN [failed_cases |-> failed, generated_test_case |-> generated_test_case,
          unmatched_cases |-> unmatched_cases, stdout |-> out]
    ELSE [failed_cases |-> failed, generated_test_case |-> generated_test_case,
          unmatched_cases |->
              IF result.report.value = result.test_case.report THEN unmatched_cases
              ELSE Append(unmatched_cases, [test_case |-> result.test_case,
                                            report |-> result.report.value]),
          stdout |-> Append(out,
              Line(IF result.report.value = result.test_case.report
                   THEN "Passed" ELSE "Unmatched", result.test_case))]

\* receiver.recv() yields a result
Receive ==
    /\ pc = "receive"
    /\ channel # <<>>
    /\ channel' = Tail(channel)
    /\ \E r \in { ReceiveResult(Head(channel),
                       IF Head(channel).report.err
                       THEN Append(failed_cases, Head(channel).test_case)
                       ELSE failed_cases,
                       IF Head(channel).report.err
                       THEN Append(stdout, Line("Failed", Head(channel).test_case))
                       ELSE stdout) } :
         /\ failed_cases' = r.failed_cases
         /\ generated_test_case' = r.generated_test_case
         /\ unmatched_cases' = r.unmatched_cases
         /\ stdout' = r.stdout
    /\ UNCHANGED <<pc, test_cases, spawned, permits, workers, file, generate>>
    /\ UNCHANGED BacktestOther

\* every sender is dropped: the spawner has ended and so has every worker
ChannelClosed ==
    /\ spawned = Len(test_cases)
    /\ \A i \in 1..Len(workers) : workers[i] = "done"

sort_generated_skipped(list) == list

\* generated_test_case.sort_by_key(|(i, _)| *i)
sort_generated(list) == sort_by_index(list)

\* receiver.recv() yields None under --generate: the cases are sorted and
\* written
WriteFile ==
    /\ pc = "receive"
    /\ channel = <<>>
    /\ ChannelClosed
    /\ generate
    /\ pc' = "done"
    /\ \E ordered \in {sort_generated(generated_test_case)} :
         file' = [written |-> TRUE,
                  records |-> [n \in 1..Len(ordered) |-> ordered[n].test_case]]
    /\ UNCHANGED <<test_cases, spawned, permits, workers, channel, generate,
                   generated_test_case, unmatched_cases, failed_cases, stdout>>
    /\ UNCHANGED BacktestOther

NextBacktest ==
    \/ SpawnWorker
    \/ \E i \in 1..Len(workers), rpc_ok \in BOOLEAN : WorkerSend(i, rpc_ok)
    \/ \E i \in 1..Len(workers) : WorkerDone(i)
    \/ Receive
    \/ WriteFile

SpecBacktest == InitBacktest /\ [][NextBacktest]_vars

\* the runtime keeps running the tasks that can take a step
SpecBacktestFair == SpecBacktest /\ WF_vars(NextBacktest)

---------------------------------------------------------------------------
(* Properties of backtest --generate (SpecBacktest)                         *)

\* the report run received from the worker of case i
ReceivedReport(i) ==
    { g.test_case.report :
        g \in { generated_test_case[q] : q \in { r \in 1..Len(generated_test_case) :
                                                   generated_test_case[r].index = i - 1 } } }

\* C18 (Backtest --generate under concurrency): the file that is written has
\* one record per input test case, in the input order; each record has the
\* inputs of its case unchanged and the report its worker computed for the
\* case, which is the report of process_block for the case's block and
\* wallet or no report.
C18_GenerateKeepsOrder ==
    file.written =>
        /\ Len(file.records) = Len(test_cases)
        /\ \A i \in 1..Len(test_cases) :
             /\ [file.records[i] EXCEPT !.report = NoReport] = test_cases[i]
             /\ ReceivedReport(i) = {file.records[i].report}
             /\ file.records[i].report \in
                  { NoReport, worker(chain, header, TRUE, test_cases[i]).value }

\* a file of three cases written after the results came in another order
\* than the cases, one worker having failed and one having a report
C18_Witness ==
    /\ file.written
    /\ Len(test_cases) = 3
    /\ generated_test_case[1].index > generated_test_case[2].index
    /\ \E i \in 1..3 : file.records[i].report.some
    /\ \E i \in 1..3 :
         /\ ~file.records[i].report.some
         /\ worker(chain, header, TRUE, test_cases[i]).value.some

\* the worker tasks that have not ended
Running == {i \in 1..Len(workers) : workers[i] # "done"}

\* the result of worker i is in the channel or was received
ResultSent(i) ==
    \/ \E q \in 1..Len(channel) : channel[q].index = i - 1
    \/ \E q \in 1..Len(generated_test_case) : generated_test_case[q].index = i - 1

PermitsHeld ==
    /\ Cardinality(Running) <= Permits
    /\ permits >= 0
    /\ permits + Cardinality(Running) = Permits
    /\ Len(workers) = spawned
    /\ \A i \in 1..Len(workers) : workers[i] = "done" => ResultSent(i)

OneResultPerCase ==
    /\ Len(generated_test_case) = Len(test_cases)
    /\ \A i \in 1..Len(test_cases) :
         Cardinality({q \in 1..Len(generated_test_case) :
                         generated_test_case[q].index = i - 1}) = 1

\* C28 (Backtest concurrency bound): at every moment at most Permits
\* (2 x CPU_COUNT) worker tasks are running; every worker that has not ended
\* holds a permit taken before it was spawned, and a worker that has ended
\* has sent its result; every test case eventually gets a permit; and the
\* result loop ends, having received exactly one result per test case.
C28_ConcurrencyBound ==
    /\ [](PermitsHeld)
    /\ [](pc = "done" => OneResultPerCase)
    /\ <>(spawned = Len(test_cases))
    /\ <>(pc = "done")

\* no permit is free while a test case waits for one; one worker still
\* computes, the other has sent its result and holds its permit
C28_Witness ==
    /\ permits = 0
    /\ spawned < Len(test_cases)
    /\ \E i, j \in 1..Len(workers) : workers[i] = "running" /\ workers[j] = "sent"
    /\ channel # <<>>

---------------------------------------------------------------------------
(* Properties of merge_accounts (SpecInvolved)                             *)

\* the addresses merged for wallet n and transaction i
MergedSet(n, i) ==
    InvolvedSet(n) \cup
        (IF /\ receipt_and_traces[i].receipt.from = wallets[n].address
            /\ receipt_and_traces[i].receipt.to # NoAddr
         THEN {receipt_and_traces[i].receipt.to} ELSE {})

\* the pointwise sum of the TokenDeltas of the accounts S, zero sums dropped
PointwiseSum(sheet, S) ==
    LET present == S \cap DOMAIN sheet
        tokens  == UNION {DOMAIN sheet[a] : a \in present}
    IN  [t \in {x \in tokens : SheetSum(sheet, x, present) # 0} |->
            SheetSum(sheet, t, present)]

\* the fold of merge_accounts when the HashSet yields the addresses in the
\* given order
RECURSIVE FoldInOrder(_, _)
FoldInOrder(sheet, order) ==
    IF order = <<>> THEN EmptyMap
    ELSE LET before == FoldInOrder(sheet, SubSeq(order, 1, Len(order) - 1))
             a      == order[Len(order)]
         IN  IF a \in DOMAIN sheet THEN extend(before, sheet[a]) ELSE before

\* the merged delta of wallet n for transaction i, as merge_accounts is called
Merged(n, i) ==
    merge_accounts(balance_changes_all[i].filtered, involved_wallets(wallets[n]),
                   Recipient(receipt_and_traces[i].receipt, wallets[n]))

\* C29 (No double counting when merging): the merged delta of a wallet for a
\* transaction is the pointwise sum of the TokenDeltas over the distinct
\* addresses among primary, builder, auxiliary addresses and the recipient,
\* zero sums dropped, however often an address occurs among them and
\* whether or not receipt.to is in the involved set, and in whatever order
\* the addresses are folded.
C29_MergeOnce ==
    Done =>
        \A n \in Wallets, i \in Txs :
            /\ Merged(n, i) = PointwiseSum(balance_changes_all[i].filtered, MergedSet(n, i))
            /\ \A order \in Orders(MergedSet(n, i)) :
                   BalanceChange_retain_non_zero(
                       FoldInOrder(balance_changes_all[i].filtered, order))
                     = Merged(n, i)
            /\ (\A j \in Txs : Listed(n, j) <=> j = i) =>
                   reports.reports[n].token_changes
                     = extract_ether(Merged(n, i), chain).rest

\* a wallet whose primary address is also its builder and among its other
\* addresses: one transaction goes to an address of the involved set and
\* its deltas cancel, another one leaves a token delta that is reported once
C29_Witness ==
    /\ Done
    /\ \E n \in Wallets, i \in Txs, j \in Txs :
         /\ Len(involved_wallets(wallets[n])) > Cardinality(InvolvedSet(n))
         /\ receipt_and_traces[i].receipt.from = wallets[n].address
         /\ receipt_and_traces[i].receipt.to \in InvolvedSet(n)
         /\ Cardinality(MergedSet(n, i) \cap DOMAIN balance_changes_all[i].filtered) = 2
         /\ Merged(n, i) = EmptyMap
         /\ Merged(n, j) # EmptyMap
         /\ \E t \in DOMAIN Merged(n, j) : Merged(n, j)[t] = 1

---------------------------------------------------------------------------
(* SpecVerdict: backtest without --generate.  The test cases carry stored  *)
(* reports; run compares each worker's report with the stored one and      *)
(* prints its summary when the channel is closed and empty.                *)

\* the case with the report process_block gives for it stored in the file
Stored(test_case) ==
    [test_case EXCEPT !.report =
        worker("mainnet", [miner |-> C, base_fee_per_gas |-> 1], TRUE, test_case).value]

\* a case whose stored report matches, the same case without a stored
\* report, and a case whose block process_block fails on
VerdictCaseChoices == { Stored(TestCase(1, A)), TestCase(1, A), TestCase(3, A) }

InitVerdict ==
    /\ pc = "receive"
    /\ chain = "mainnet"
    /\ header = [miner |-> C, base_fee_per_gas |-> 1]
    /\ wallets = <<>>
    /\ receipt_and_traces = <<>>
    /\ reports = <<>>
    /\ receipt = NoReceipt
    /\ SheetIdle
    /\ FeeIdle
    /\ LiveIdle
    /\ StartIdle
    /\ \E n \in 1..MaxCases : test_cases \in [1..n -> VerdictCaseChoices]
    /\ spawned = 0
    /\ permits = Permits
    /\ workers = <<>>
    /\ channel = <<>>
    /\ generated_test_case = <<>>
    /\ file = [written |-> FALSE, records |-> <<>>]
    /\ generate = FALSE
    /\ unmatched_cases = <<>>
    /\ failed_cases = <<>>
    /\ stdout = <<>>

\* a line that names no test case
NoCase == <<>>

\* the lines printed after the loop: "All tests passed!" and nothing else
\* when unmatched_cases is empty, else the unmatched cases and the failed
\* cases
summary(unmatched, failed) ==
    IF unmatched = <<>> THEN <<Line("All tests passed!", NoCase)>>
    ELSE [k \in 1..Len(unmatched) |-> Line("=== Unmatched Case ===", unmatched[k].test_case)]
         \o <<Line("=== Failed Case ===", NoCase)>>
         \o [k \in 1..Len(failed) |-> Line("failed case", failed[k])]

\* receiver.recv() yields None without --generate: the summary is printed
PrintSummary ==
    /\ pc = "receive"
    /\ channel = <<>>
    /\ ChannelClosed
    /\ ~generate
    /\ pc' = "done"
    /\ stdout' = stdout \o summary(unmatched_cases, failed_cases)
    /\ UNCHANGED <<test_cases, spawned, permits, workers, channel, generate,
                   generated_test_case, unmatched_cases, failed_cases, file>>
    /\ UNCHANGED BacktestOther

NextVerdict ==
    \/ SpawnWorker
    \/ \E i \in 1..Len(workers), rpc_ok \in BOOLEAN : WorkerSend(i, rpc_ok)
    \/ \E i \in 1..Len(workers) : WorkerDone(i)
    \/ Receive
    \/ PrintSummary

SpecVerdict == InitVerdict /\ [][NextVerdict]_vars

---------------------------------------------------------------------------
(* Properties of the backtest verdict (SpecVerdict)                        *)

Printed(kind) == \E q \in 1..Len(stdout) : stdout[q].kind = kind

\* the lines of the summary that list failed cases
FailedListed ==
    SelectSeq(stdout, LAMBDA l : l.kind = "failed case")

\* C30 (Backtest verdict): without --generate, "All tests passed!" is
\* printed only if every test case ran without error and its report equals
\* the stored one; when a test case failed with an error or was unmatched,
\* the summary does not say that all tests passed and lists the failed
\* cases.
C30_BacktestVerdict ==
    (pc = "done" /\ ~generate) =>
        /\ Printed("All tests passed!") =>
              /\ failed_cases = <<>>
              /\ unmatched_cases = <<>>
              /\ ~Printed("Failed") /\ ~Printed("Unmatched")
        /\ (failed_cases # <<>> \/ unmatched_cases # <<>>) =>
              /\ ~Printed("All tests passed!")
              /\ [k \in 1..Len(FailedListed) |-> FailedListed[k].test_case] = failed_cases

====
